---------------------------- MODULE Spec2Model ----------------------------
(***************************************************************************)
(* BTZen: connection management and device I/O core.                      *)
(*                                                                         *)
(* The model follows btzen/cm.py (connect, manage_connection,              *)
(* create_connection, enable_devices, disable_devices, restart_devices,    *)
(* resolve_services, stop_tasks, disarm), btzen/session.py (Session,       *)
(* connected, _run_device_task) and btzen/devio.py (the read paths).       *)
(*                                                                         *)
(* Scheduling is asyncio's: one thread, cooperative.  An action is the     *)
(* code a task runs between two suspension points (an await that really    *)
(* yields), so everything a handler does before it suspends again is one   *)
(* step.  A task is "new" (created, first step not yet run), "wait"        *)
(* (suspended on a future), "woken" (its future has a result, the resume   *)
(* is scheduled) or "done".                                                *)
(*                                                                         *)
(* cm.py holds two connection managers: the connect() scope with its       *)
(* module-level functions, and the ConnectionManager class.  impl says     *)
(* which one runs; readers and the session go with connect().              *)
(*                                                                         *)
(* connected[mac] is the per-MAC event: cm.py keeps it in CM_CONNECTION    *)
(* (set in enable_devices, cleared in disable_devices) and session.py      *)
(* waits for it in Session.wait_connected.  The code that creates the      *)
(* Session and hands it the events and the connection tasks is not part    *)
(* of the sources; as in the specification there is one event per MAC,     *)
(* and the tasks connect() creates are the connection tasks the session    *)
(* records and cancels in Session.stop.  Session.stop and                  *)
(* Session.disconnect_devices have no caller in the sources besides        *)
(* Session._stop: they are operations the program's owner may call at any  *)
(* time.  Session.create_future, which the read paths call, is not         *)
(* defined in the sources either; it registers a managed task as           *)
(* create_task does.                                                       *)
(*                                                                         *)
(* The serial transport of btzen/serial.py (credit-gated reads and writes  *)
(* over TX_UART, TX_CREDIT, RX_UART and RX_CREDIT) and the registry of     *)
(* btzen/bus.py (Notifications) have their own specifications, SerialSpec  *)
(* and NotifSpec, over their own variables.                                *)
(***************************************************************************)
EXTENDS Integers, Sequences, FiniteSets, TLC

\* ------------------------------------------------------------------ sets

\* Number of concurrent callers of read().
NReaders == 1

MACS == {"m1"}

DEVICES == {"d1", "d2"}

READERS == 1..NReaders

\* The addresses disconnect_devices may be called with: the MACs of the
\* devices and an address that no device of the session has.
ADDRS == MACS \cup {"m0"}

\* by_mac of connect(): the devices of each MAC, in iteration order.
DevSeq(m) == <<"d1", "d2">>

MacOf(d) == "m1"

DevsOf(m) == {d \in DEVICES : MacOf(d) = m}

\* One entry per device descriptor instead of one per MAC.
by_device == [d \in DEVICES |-> {d}]

\* by_mac of connect(), _devices of ConnectionManager.add: the devices are
\* grouped by their MAC.
by_mac == [m \in {MacOf(d) : d \in DEVICES} |-> DevsOf(m)]

\* conn_tasks of connect(), _connection_tasks of ConnectionManager: one
\* task per item of by_mac, named by the key of the item.
conn_tasks == DOMAIN by_mac

\* The MAC of the devices a connection task manages.
TaskMac(k) == CHOOSE m \in MACS : \A d \in by_mac[k] : MacOf(d) = m

\* Cancellation causes.
NoCancel == "none"

CONNECTION_ERROR == "Connection error"

SESSION_STOPPED == "BTZen session stopped"

\* Task.cancel() without a message (connect() scope exit).
NO_MSG == "no message"


\* ------------------------------------------------------------- variables

VARIABLES
    impl,         \* which connection manager of cm.py runs: connect() or the class
    process,      \* ConnectionManager._process
    cm_stop,      \* CM_STOP (cm.py)
    scope_open,   \* the body of "async with connect(...)" has not been left
    is_active,    \* Session._is_active
    sevent,       \* Session._event is set
    apc,          \* position of the task that awaits the session object
    connected,    \* the per-MAC event: CM_CONNECTION[mac] / _connection_status[mac]
    pc,           \* per MAC: where the connection task is suspended
    idx,          \* per MAC: index in DevSeq of the device being enabled/disabled;
                  \* 1 outside the loops
    hctx,         \* per MAC: why disable_devices runs ("false" / "cancel")
    ccancel,      \* per MAC: cancellation requested of the connection task
    monitor,      \* per MAC: ServicesResolved property monitor is started
    teardown,     \* per MAC: what the finally block of manage_connection has done
    closelog,     \* what the exit of the connect scope, or close(), has done
    scope_raised, \* the exit of the connect scope raised an exception
    trusted,      \* per MAC: bt_device_set_trusted has been called
    enabled,      \* per device: enabled since its last disable (its notification
                  \* subscription exists)
    device_task,  \* Session._device_task: device -> set of managed tasks
    task,         \* per reader: the managed task the reader awaits
    rpc,          \* per reader: position of the read() call
    rdev,         \* per reader: the device being read ("d1" between calls)
    rres,         \* per reader: how the last read() call ended
    lastop,       \* history: last bus operation of the connect loop
    gap,          \* history: how the remove/connect pair in progress was entered
    lastEnable,   \* history: result of the last terminated enable(d)
    enOk,         \* history: devices whose enable succeeded in the pass in progress
    okSinceClear, \* history: a pass with every enable ok ended since the last clear
    oplog,        \* history: operations of the task while nothing has failed
    happy,        \* history: no operation failed and nothing was cancelled
    buffer,       \* serial: state['buffer'], the bytes read beyond a request
    rx_credits,   \* serial: state['rx_credits']
    subs,         \* serial: characteristics with a notification subscription
    uart_q,       \* serial: TX_UART fragments notified and not yet taken
    txc_q,        \* serial: number of TX_CREDIT values notified and not yet taken
    epc,          \* serial: position of the enable call
    sconn,        \* serial: enable has returned since the last disable
    rd,           \* serial: the read call: position, n, data, subscription lost
    wr,           \* serial: the write call: position, length, TX credit taken
    granted,      \* history: RX credits granted since the last enable
    frags,        \* history: fragments taken by read since the last enable
    rcred,        \* serial: RX credits the remote holds
    delivered,    \* history: fragments the remote sent since the last enable
    sent,         \* history: bytes the remote sent since the last enable
    got,          \* history: bytes returned by read since the last enable
    elog,         \* history: what the enable call in progress has done
    wlog,         \* history: what the write call in progress has done
    rx_uart,      \* history: number of writes to RX_UART
    clean,        \* history: no read was cut short and no enable met a call in flight
    budget,       \* history: calls and cancellations left
    ndata,        \* notifications: Notifications._data, key -> registered names
    nmon,         \* notifications: key -> property monitors started and not stopped
    nres,         \* notifications: how the last start or stop ended
    characteristic_cache,  \* Bus._characteristic_cache, (mac, uuid) -> path
    cres,         \* characteristic paths: the last call and how it ended
    ens,          \* characteristic paths: ensure_characteristic_path in flight
    CONFIG_CACHE, \* thingy52: _CONFIG_CACHE, mac -> Thingy52Config
    thlast,       \* thingy52: history, the operand last given per mac and entry
    thwritten,    \* thingy52: the last write to the configuration characteristic
    thbudget,     \* thingy52: set_trigger calls left
    tcall,        \* descriptors: the last set_trigger call, its device and arguments
    tout,         \* descriptors: the descriptor that call returned
    stdev,        \* sensor tag: the device of the enable call in flight or ended
    stpc,         \* sensor tag: where the enable call is
    stwrites,     \* sensor tag: the writes the call has made, in order
    stres,        \* sensor tag: how the call ended
    PROXY_REGISTRY,  \* dispatch: _PROXY_REGISTRY, (variant, service class) -> class
    ptypes,       \* dispatch: the product classes created, each with its base
    registered,   \* dispatch: the classes an implementation is registered for
    dres          \* dispatch: the last request and its answer

coreVars == <<impl, process, cm_stop, scope_open, is_active, sevent, apc, connected, pc, idx, hctx, ccancel,
          monitor, teardown, closelog, scope_raised, trusted, enabled, device_task, task, rpc, rdev, rres,
          lastop, gap, lastEnable, enOk, okSinceClear, oplog, happy>>

serialVars == <<buffer, rx_credits, subs, uart_q, txc_q, epc, sconn, rd, wr, granted, frags,
                rcred, delivered, sent, got, elog, wlog, rx_uart, clean, budget>>

notifVars == <<ndata, nmon, nres>>

\* The serial transport and the notification registry, which the actions
\* of the connection manager and of the session leave alone.
pathVars == <<characteristic_cache, cres, ens>>

\* The state of the parts with a specification of their own besides the
\* serial transport and the registry.
thingyVars == <<CONFIG_CACHE, thlast, thwritten, thbudget>>

devVars == <<tcall, tout>>

tagVars == <<stdev, stpc, stwrites, stres>>

dispVars == <<PROXY_REGISTRY, ptypes, registered, dres>>

extraVars == <<pathVars, thingyVars, devVars, tagVars, dispVars>>

transportVars == <<serialVars, notifVars, extraVars>>

vars == <<coreVars, serialVars, notifVars, extraVars>>

modeVars == <<impl, process>>

closeVars == <<closelog, scope_raised>>

awaitVars == <<sevent, apc>>

connVars == <<pc, idx, hctx, monitor, trusted, lastop, gap, oplog, happy>>

readerVars == <<rpc, rdev, rres>>

histEnable == <<lastEnable, enOk, okSinceClear>>

\* ----------------------------------------------------------------- tasks

\* How a task or a read() call ended: the kind of the exception and its
\* message, or a value.
Result(kind, msg) == [kind |-> kind, msg |-> msg]

NoResult == Result("none", "")

Ok == Result("value", "")

\* The message of the CancelledError connected() raises when the session
\* is not active.
NOT_RUNNING == "BTZen is not running"

NoTask == [st |-> "none", cmsg |-> NoCancel, res |-> NoResult]

NewTask == [st |-> "new", cmsg |-> NoCancel, res |-> NoResult]

\* asyncio.Task.cancel(msg): a task that has not run yet or whose future
\* already has a result takes the message of the last cancel; a task
\* suspended on a future cancels that future, and the first message is the
\* one the coroutine sees.  A finished task is left alone.
CancelTask(t, msg) ==
    CASE t.st = "new" -> [t EXCEPT !.cmsg = msg]
      [] t.st = "woken" -> [t EXCEPT !.cmsg = msg]
      [] t.st = "wait" -> IF t.cmsg = NoCancel THEN [t EXCEPT !.cmsg = msg] ELSE t
      [] OTHER -> t

ConnEnded(p) == p \in {"cancelled", "failed", "returned"}

\* Task.cancel(msg) on a connection task at position p with request c.
CancelConn(p, c, msg) ==
    IF ConnEnded(p) THEN c
    ELSE IF p = "new" THEN msg
    ELSE IF c = NoCancel THEN msg ELSE c

AllDeviceTasks == UNION {device_task[d] : d \in DEVICES}

\* t.cancel(msg) for every task of device_task, whatever its device.
CancelAllTasks(tk, ds, msg) ==
    [r \in READERS |->
        IF \E d \in DEVICES : r \in device_task[d]
        THEN CancelTask(tk[r], msg) ELSE tk[r]]

\* t.cancel(msg) for every task of device_task of a device in ds.
CancelDeviceTasks(tk, ds, msg) ==
    [r \in READERS |->
        IF \E d \in ds : r \in device_task[d]
        THEN CancelTask(tk[r], msg) ELSE tk[r]]

\* ------------------------------------- serial transport state (serial.py)

\* Bounds of the serial transport: fragments the remote sends, enable
\* calls, write calls and cancellations of a read.
MaxFrags == 3

MaxEnables == 2

MaxWrites == 1

MaxCancels == 1

\* TX_CREDIT values that may wait in the queue of the subscription.
MaxTxc == 1

\* Lengths of the fragments the remote sends (at most 20 bytes each).
FragSizes == {1, 2}

\* The numbers of bytes read() is called with.
ReadSizes == {1, 3, 6000}

\* The lengths of the data write() is called with.
WriteSizes == {20, 21}

\* No read call in progress.
NoRead == [pc |-> "idle", n |-> 0, data |-> <<>>, lost |-> FALSE]

\* No write call in progress.
NoWrite == [pc |-> "idle", len |-> 0, took |-> FALSE, lost |-> FALSE]

\* device_state: the state of a device that was never enabled; nothing
\* subscribed, no call in progress.
SerialIdle ==
    /\ buffer = <<>>
    /\ rx_credits = 0
    /\ subs = {}
    /\ uart_q = <<>>
    /\ txc_q = 0
    /\ epc = "idle"
    /\ sconn = FALSE
    /\ rd = NoRead
    /\ wr = NoWrite
    /\ granted = 0
    /\ frags = 0
    /\ rcred = 0
    /\ delivered = 0
    /\ sent = 0
    /\ got = <<>>
    /\ elog = <<>>
    /\ wlog = <<>>
    /\ rx_uart = 0
    /\ clean = TRUE
    /\ budget = [enable |-> MaxEnables, write |-> MaxWrites, cancel |-> MaxCancels,
                 frag |-> MaxFrags]

\* ------------------------------------ notification registry state (bus.py)

PATHS == {"p1", "p2"}

IFACES == {"i1", "i2"}

NAMES == {"n1", "n2"}

KEYS == PATHS \X IFACES

\* Notifications.__init__: _data is empty.
NotifIdle ==
    /\ ndata = [k \in {} |-> {}]
    /\ nmon = [k \in KEYS |-> 0]
    /\ nres = "none"

\* Keys of the characteristic cache, and the paths the bus may answer.
CKEYS == {<<"m1", "u1">>, <<"m2", "u1">>}
CPATHS == {"c1", "c2"}
NoPath == "None"
NoEnsure == [key |-> <<>>, i |-> 0]
NoCall == [op |-> "none", key |-> <<>>, out |-> NoPath, looked |-> FALSE]

\* Bus.__init__: the cache is empty.
PathIdle ==
    /\ characteristic_cache = [k \in CKEYS |-> NoPath]
    /\ cres = NoCall
    /\ ens = NoEnsure

\* Addresses of Thingy-like devices and the entries of Thingy52Config a
\* sensor service names.
TMACS == {"t1", "t2"}
ENTRIES == {"temperature", "pressure", "humidity", "color"}

\* Most set_trigger calls followed.
MaxTriggers == 3

\* Intervals are counted in tenths of a millisecond: 10000 is the 1.0 s of
\* the defaults of Thingy52Config.
SECOND == 10000
Thingy52Config == [e \in ENTRIES |-> SECOND] @@ [gas |-> 1, r |-> 0, g |-> 255, b |-> 0]
Unset == 0 - 1
NoBlob == [mac |-> "none", data |-> <<>>]

\* thingy52.py at import: the cache is empty, and an address looked up
\* in the defaultdict has the default configuration.
ThingyIdle ==
    /\ CONFIG_CACHE = [m \in TMACS |-> Thingy52Config]
    /\ thlast = [m \in TMACS |-> [e \in ENTRIES |-> Unset]]
    /\ thwritten = NoBlob
    /\ thbudget = MaxTriggers

\* data.py: NoTrigger and Trigger(condition, operand).
NoTrigger == [condition |-> "NoTrigger", operand |-> 0]
Trigger(condition, operand) == [condition |-> condition, operand |-> operand]
NoDevice == [variant |-> "none"]

\* No set_trigger call has been made.
DevIdle ==
    /\ tcall = [device |-> NoDevice, condition |-> "none", operand |-> 0]
    /\ tout = NoDevice

\* No sensor tag is being enabled.
TagIdle ==
    /\ stdev = [variant |-> "none", interval |-> 0, operand |-> 0, dbg |-> TRUE]
    /\ stpc = "idle"
    /\ stwrites = <<>>
    /\ stres = "none"

\* Device variants and service classes, each class with the class it
\* derives from.
VARIANTS == {"Device", "DeviceTrigger"}
SCLASSES == {"Service", "ServiceInterface", "ServiceCharacteristic", "Thingy52Service"}
ParentOf ==
    [c \in SCLASSES |->
        CASE c = "Service" -> "object"
          [] c = "Thingy52Service" -> "ServiceCharacteristic"
          [] OTHER -> "Service"]
PKEYS == VARIANTS \X SCLASSES
Object == <<"object", "object", 0>>
Default == <<"default", "default">>

\* device.py at import: no product class exists.
DispIdle ==
    /\ PROXY_REGISTRY = [k \in PKEYS |-> 0]
    /\ ptypes = [x \in {} |-> Object]
    /\ registered = {}
    /\ dres = [op |-> "none", key |-> Default, cls |-> Object, impl |-> Default]

ExtraIdle == PathIdle /\ ThingyIdle /\ DevIdle /\ TagIdle /\ DispIdle

\* ------------------------------------------------------------------ Init

\* connect(): CM_STOP is False, the session is started, the tasks are
\* created.  ConnectionManager: __await__ has set _process and created the
\* tasks; there is no session.
CoreInit ==
    /\ impl \in {"connect", "ConnectionManager"}
    /\ process = (impl = "ConnectionManager")
    /\ cm_stop = FALSE
    /\ scope_open = (impl = "connect")
    /\ is_active = (impl = "connect")
    /\ sevent = FALSE
    /\ apc = "none"
    /\ connected = [m \in MACS |-> FALSE]
    /\ pc = [k \in conn_tasks |-> "new"]
    /\ idx = [m \in MACS |-> 1]
    /\ hctx = [m \in MACS |-> "none"]
    /\ ccancel = [m \in MACS |-> NoCancel]
    /\ monitor = [m \in MACS |-> FALSE]
    /\ teardown = [m \in MACS |-> <<>>]
    /\ closelog = <<>>
    /\ scope_raised = FALSE
    /\ trusted = [m \in MACS |-> FALSE]
    /\ enabled = [d \in DEVICES |-> FALSE]
    /\ device_task = [d \in DEVICES |-> {}]
    /\ task = [r \in READERS |-> NoTask]
    /\ rpc = [r \in READERS |-> "idle"]
    /\ rdev = [r \in READERS |-> "d1"]
    /\ rres = [r \in READERS |-> NoResult]
    /\ lastop = [m \in MACS |-> "none"]
    /\ gap = [m \in MACS |-> "first"]
    /\ lastEnable = [d \in DEVICES |-> "none"]
    /\ enOk = [m \in MACS |-> {}]
    /\ okSinceClear = [m \in MACS |-> FALSE]
    /\ oplog = [m \in MACS |-> <<>>]
    /\ happy = [m \in MACS |-> TRUE]

\* The serial device is not enabled and nothing is subscribed.
Init == CoreInit /\ SerialIdle /\ NotifIdle /\ ExtraIdle


\* ------------------------------------------------- connection task (cm.py)

\* The loop over the devices stops after the first one.
LastDevFirstOnly(m) == 1

\* for dev in devices: the index of the last device.
LastDev(m) == Len(DevSeq(m))

LogComplete(m) == Len(oplog[m]) > 0 /\ oplog[m][Len(oplog[m])] = "connected"

\* History of the first pass through the state machine: the operations are
\* recorded until connected[mac] is set the first time; a failure or a
\* cancellation ends the recording.
Hist(m, ops, ok) ==
    IF happy[m] /\ ~LogComplete(m)
    THEN /\ oplog' = [oplog EXCEPT ![m] = IF ok THEN @ \o ops ELSE <<>>]
         /\ happy' = [happy EXCEPT ![m] = ok]
    ELSE UNCHANGED <<oplog, happy>>

\* The task goes on: no done callback runs, the request it was resumed
\* with is consumed.
ConnStay(m) ==
    /\ ccancel' = [ccancel EXCEPT ![m] = NoCancel]
    /\ UNCHANGED <<cm_stop, is_active, sevent, task>>

\* stop() cancels the device tasks and forgets the connection tasks.
StopEffectDeviceTasksOnly(m) ==
    /\ is_active' = FALSE
    /\ task' = CancelDeviceTasks(task, DEVICES, SESSION_STOPPED)
    /\ ccancel' = [mm \in MACS |-> IF mm = m THEN NoCancel ELSE ccancel[mm]]

\* Session.stop(): the session is inactive and every device task and every
\* connection task is cancelled.  m is the connection task whose done
\* callback calls stop(), if any: it has ended.
StopEffect(m) ==
    /\ is_active' = FALSE
    /\ task' = CancelDeviceTasks(task, DEVICES, SESSION_STOPPED)
    /\ ccancel' = [mm \in MACS |->
                    IF mm = m THEN NoCancel
                    ELSE CancelConn(pc[mm], ccancel[mm], SESSION_STOPPED)]

\* The end of a task whose done callbacks do nothing, whatever it ended
\* with.
ConnFinishQuiet(m, how) ==
    /\ pc' = [pc EXCEPT ![m] = how]
    /\ ConnStay(m)

\* The task ends, cancelled or with an exception, and its done callbacks
\* run: stop_tasks sets CM_STOP and Session._stop stops the session and
\* sets Session._event, both only for a task that ended with an exception.
ConnFinish(m, how) ==
    /\ pc' = [pc EXCEPT ![m] = how]
    /\ IF how = "failed"
       THEN cm_stop' = TRUE /\ StopEffect(m) /\ sevent' = TRUE
       ELSE ConnStay(m)

\* What a call made through disarm of cm.py ends with: it returns, it
\* raises an exception, or it raises CancelledError.
RemoveOutcome == {"ok", "error", "cancelled"}

\* disarm logs a failure; it re-raises a CancelledError once CM_STOP is set.
DisarmRaises(o) == o = "cancelled" /\ cm_stop

\* The finally block of manage_connection: the monitor is stopped, then
\* bt_disconnect and then remove_connection are called through disarm,
\* ending with do and ro.
Teardown(m, do, ro) ==
    /\ monitor' = [monitor EXCEPT ![m] = FALSE]
    /\ teardown' = [teardown EXCEPT ![m] =
            IF DisarmRaises(do) THEN <<"monitor_stop", "disconnect">>
            ELSE <<"monitor_stop", "disconnect", "remove">>]

\* How the task ends when it leaves the try block with how: an exception
\* raised in the finally block replaces the one that was propagating.
EndKind(how, do, ro) ==
    IF DisarmRaises(do) \/ DisarmRaises(ro) THEN "cancelled" ELSE how

\* The loop connects without removing the device first.
LoopTopNoRemove(m, ro, entered) ==
    /\ pc' = [pc EXCEPT ![m] = "connect"]
    /\ ConnStay(m)
    /\ UNCHANGED lastop
    /\ gap' = [gap EXCEPT ![m] = entered]
    /\ Hist(m, IF entered = "first" THEN <<"monitor">> ELSE <<>>, entered = "first")

\* One remove_connection and the start of create_connection: the task is
\* suspended in bt_connect afterwards.  disarm logs a failure of bt_remove;
\* it re-raises a CancelledError once CM_STOP is set, and the loop is not
\* inside the try block.
LoopTop(m, ro, entered) ==
    IF ro = "cancelled" /\ cm_stop
    THEN /\ ConnFinish(m, "cancelled")
         /\ UNCHANGED <<lastop, gap>>
         /\ Hist(m, <<>>, FALSE)
    ELSE /\ pc' = [pc EXCEPT ![m] = "connect"]
         /\ ConnStay(m)
         /\ lastop' = [lastop EXCEPT ![m] = IF ro = "ok" THEN "remove_ok" ELSE "remove_err"]
         /\ gap' = [gap EXCEPT ![m] = entered]
         /\ Hist(m, (IF entered = "first" THEN <<"monitor">> ELSE <<>>) \o <<"remove">>,
                 ro = "ok" /\ entered = "first")

\* manage_connection up to its first suspension.
StartConn(m, ro) ==
    /\ impl = "connect"
    /\ pc[m] = "new" /\ ccancel[m] = NoCancel
    /\ monitor' = [monitor EXCEPT ![m] = TRUE]
    /\ LoopTop(m, ro, "first")
    /\ UNCHANGED <<transportVars, modeVars, closeVars, apc, teardown, scope_open, connected, idx, hctx, trusted, enabled,
                   device_task, readerVars, histEnable>>

\* A task cancelled before its first step never runs its coroutine.
StartCancelled(m) ==
    /\ impl = "connect"
    /\ pc[m] = "new" /\ ccancel[m] # NoCancel
    /\ ConnFinish(m, "cancelled")
    /\ Hist(m, <<>>, FALSE)
    /\ UNCHANGED <<transportVars, modeVars, closeVars, apc, teardown, scope_open, connected, idx, hctx, monitor, trusted, enabled,
                   device_task, readerVars, histEnable, lastop, gap>>

\* create_connection: bt_connect returned.
ConnectOk(m) ==
    /\ impl = "connect"
    /\ pc[m] = "connect" /\ ccancel[m] = NoCancel
    /\ pc' = [pc EXCEPT ![m] = "resolve"]
    /\ trusted' = [trusted EXCEPT ![m] = TRUE]
    /\ lastop' = [lastop EXCEPT ![m] = "conn_ok"]
    /\ gap' = [gap EXCEPT ![m] = "first"]
    /\ ConnStay(m)
    /\ Hist(m, <<"connect", "trusted">>, TRUE)
    /\ UNCHANGED <<transportVars, modeVars, closeVars, apc, teardown, scope_open, connected, idx, hctx, monitor, enabled,
                   device_task, readerVars, histEnable>>

\* create_connection: bt_connect raised BTZenError("Already Exists") and
\* CM_STOP is not set.
ConnectExists(m) ==
    /\ impl = "connect"
    /\ pc[m] = "connect" /\ ccancel[m] = NoCancel /\ ~cm_stop
    /\ pc' = [pc EXCEPT ![m] = "resolve"]
    /\ trusted' = [trusted EXCEPT ![m] = TRUE]
    /\ lastop' = [lastop EXCEPT ![m] = "conn_ae"]
    /\ gap' = [gap EXCEPT ![m] = "first"]
    /\ ConnStay(m)
    /\ Hist(m, <<>>, FALSE)
    /\ UNCHANGED <<transportVars, modeVars, closeVars, apc, teardown, scope_open, connected, idx, hctx, monitor, enabled,
                   device_task, readerVars, histEnable>>

\* create_connection: bt_connect raised another BTZenError or a
\* CancelledError (the bus call failed, or the task was cancelled) and
\* CM_STOP is not set: the task goes to sleep.
ConnectFail(m) ==
    /\ impl = "connect"
    /\ pc[m] = "connect" /\ ~cm_stop
    /\ pc' = [pc EXCEPT ![m] = "sleep"]
    /\ lastop' = [lastop EXCEPT ![m] = "conn_fail"]
    /\ ConnStay(m)
    /\ Hist(m, <<>>, FALSE)
    /\ UNCHANGED <<transportVars, modeVars, closeVars, apc, teardown, scope_open, connected, idx, hctx, monitor, trusted, enabled,
                   device_task, readerVars, histEnable, gap>>

\* create_connection: bt_connect raised BTZenError or CancelledError with
\* CM_STOP set: neither branch is taken, created stays False and the loop
\* of manage_connection goes on with the next remove and connect.
ConnectFailStopped(m, ro) ==
    /\ impl = "connect"
    /\ pc[m] = "connect" /\ cm_stop
    /\ LoopTop(m, ro, "nosleep")
    /\ UNCHANGED <<transportVars, modeVars, closeVars, apc, teardown, scope_open, connected, idx, hctx, monitor, trusted, enabled,
                   device_task, readerVars, histEnable>>

\* asyncio.sleep in create_connection is over: created is False, next round.
SleepDone(m, ro) ==
    /\ impl = "connect"
    /\ pc[m] = "sleep" /\ ccancel[m] = NoCancel
    /\ LoopTop(m, ro, "slept")
    /\ UNCHANGED <<transportVars, modeVars, closeVars, apc, teardown, scope_open, connected, idx, hctx, monitor, trusted, enabled,
                   device_task, readerVars, histEnable>>

\* Cancelled in asyncio.sleep: the CancelledError leaves the except block
\* and manage_connection; the try/finally has not been entered.
SleepCancelled(m) ==
    /\ impl = "connect"
    /\ pc[m] = "sleep" /\ ccancel[m] # NoCancel
    /\ ConnFinish(m, "cancelled")
    /\ Hist(m, <<>>, FALSE)
    /\ UNCHANGED <<transportVars, modeVars, closeVars, apc, teardown, scope_open, connected, idx, hctx, monitor, trusted, enabled,
                   device_task, readerVars, histEnable, lastop, gap>>


CurDev(m) == DevSeq(m)[idx[m]]

\* The calls are started together, as asyncio.gather would.
InCallAll(m) ==
    IF pc[m] \in {"enable", "disable"}
    THEN {DevSeq(m)[i] : i \in idx[m]..LastDev(m)} ELSE {}

\* The devices of m with an enable or a disable call in progress: the
\* loops of enable_devices, disable_devices and ConnectionManager._enable
\* await one call after the other.
InCall(m) == IF pc[m] \in {"enable", "disable"} THEN {CurDev(m)} ELSE {}

\* Event.set(): every task waiting for the event gets its result; it runs
\* later.
WakeGate(tk, m) ==
    [r \in READERS |->
        IF rpc[r] = "gate" /\ MacOf(rdev[r]) = m
           /\ tk[r].st = "wait" /\ tk[r].cmsg = NoCancel
        THEN [tk[r] EXCEPT !.st = "woken"] ELSE tk[r]]

\* disable_devices up to its first suspension: the event is cleared, then
\* the first disable is awaited.
DisableStart(m, ctx) ==
    /\ connected' = [connected EXCEPT ![m] = FALSE]
    /\ okSinceClear' = [okSinceClear EXCEPT ![m] = FALSE]
    /\ pc' = [pc EXCEPT ![m] = "disable"]
    /\ idx' = [idx EXCEPT ![m] = 1]
    /\ hctx' = [hctx EXCEPT ![m] = ctx]

\* resolve_services: the next value of ServicesResolved arrived.  True:
\* the generator yields and restart_devices calls enable_devices, which
\* awaits the first enable.  False: disable_devices.
Resolved(m, v) ==
    /\ impl = "connect"
    /\ pc[m] = "resolve" /\ ccancel[m] = NoCancel
    /\ IF v
       THEN /\ pc' = [pc EXCEPT ![m] = "enable"]
            /\ idx' = [idx EXCEPT ![m] = 1]
            /\ enOk' = [enOk EXCEPT ![m] = {}]
            /\ Hist(m, <<"resolved", DevSeq(m)[1]>>, TRUE)
            /\ UNCHANGED <<connected, okSinceClear, hctx>>
       ELSE /\ DisableStart(m, "false")
            /\ Hist(m, <<>>, FALSE)
            /\ UNCHANGED enOk
    /\ ConnStay(m)
    /\ UNCHANGED <<transportVars, modeVars, closeVars, apc, teardown, scope_open, monitor, trusted, enabled, device_task,
                   readerVars, lastEnable, lastop, gap>>

\* Cancelled while waiting for ServicesResolved: the CancelledError leaves
\* resolve_services and restart_devices (the wait is outside the try of
\* restart_devices) and the finally block of manage_connection runs.
ResolveCancelled(m) ==
    /\ impl = "connect"
    /\ pc[m] = "resolve" /\ ccancel[m] # NoCancel
    /\ \E do, ro \in RemoveOutcome :
            Teardown(m, do, ro) /\ ConnFinish(m, "cancelled")
    /\ Hist(m, <<>>, FALSE)
    /\ UNCHANGED <<transportVars, modeVars, closeVars, apc, scope_open, connected, idx, hctx, trusted, enabled,
                   device_task, readerVars, histEnable, lastop, gap>>

\* enable_devices: enable(dev) returned.  After the last device the event
\* is set and the task waits for the next ServicesResolved value.  The
\* enable of a device starts its notifications (Bus._gatt_start), and
\* Notifications.start asserts that the path has no subscription yet: the
\* enable of a device that is enabled cannot return.
EnableOk(m) ==
    /\ impl = "connect"
    /\ pc[m] = "enable" /\ ccancel[m] = NoCancel
    /\ ~enabled[CurDev(m)]
    /\ lastEnable' = [lastEnable EXCEPT ![CurDev(m)] = "ok"]
    /\ enabled' = [enabled EXCEPT ![CurDev(m)] = TRUE]
    /\ IF idx[m] < LastDev(m)
       THEN /\ idx' = [idx EXCEPT ![m] = @ + 1]
            /\ enOk' = [enOk EXCEPT ![m] = @ \cup {CurDev(m)}]
            /\ Hist(m, <<DevSeq(m)[idx[m] + 1]>>, TRUE)
            /\ UNCHANGED <<pc, connected, okSinceClear, task>>
       ELSE /\ connected' = [connected EXCEPT ![m] = TRUE]
            /\ okSinceClear' = [okSinceClear EXCEPT
                    ![m] = @ \/ enOk[m] \cup {CurDev(m)} = DevsOf(m)]
            /\ enOk' = [enOk EXCEPT ![m] = {}]
            /\ pc' = [pc EXCEPT ![m] = "resolve"]
            /\ task' = WakeGate(task, m)
            /\ Hist(m, <<"connected">>, TRUE)
            /\ idx' = [idx EXCEPT ![m] = 1]
    /\ ccancel' = [ccancel EXCEPT ![m] = NoCancel]
    /\ UNCHANGED <<transportVars, modeVars, closeVars, awaitVars, teardown, cm_stop, is_active, scope_open, hctx, monitor, trusted,
                   device_task, readerVars, lastop, gap>>

\* restart_devices: enable(dev) raised CancelledError (the bus call was
\* cancelled, or the task was).  The handler calls disable_devices.
EnableCancelled(m) ==
    /\ impl = "connect"
    /\ pc[m] = "enable"
    /\ lastEnable' = [lastEnable EXCEPT ![CurDev(m)] = "cancelled"]
    /\ enOk' = [enOk EXCEPT ![m] = {}]
    /\ DisableStart(m, "cancel")
    /\ ConnStay(m)
    /\ Hist(m, <<>>, FALSE)
    /\ UNCHANGED <<transportVars, modeVars, closeVars, apc, teardown, scope_open, monitor, trusted, enabled, device_task,
                   readerVars, lastop, gap>>

\* enable(dev) raised another exception (an error of the bus, or the
\* AssertionError of Notifications.start for a path that is subscribed):
\* restart_devices does not catch it, the finally block of
\* manage_connection runs and the task ends.
EnableError(m) ==
    /\ impl = "connect"
    /\ pc[m] = "enable" /\ ccancel[m] = NoCancel
    /\ lastEnable' = [lastEnable EXCEPT ![CurDev(m)] = "failed"]
    /\ enOk' = [enOk EXCEPT ![m] = {}]
    /\ \E do, ro \in RemoveOutcome :
            Teardown(m, do, ro) /\ ConnFinish(m, EndKind("failed", do, ro))
    /\ Hist(m, <<>>, FALSE)
    /\ idx' = [idx EXCEPT ![m] = 1]
    /\ UNCHANGED <<transportVars, modeVars, closeVars, apc, scope_open, connected, hctx, trusted, enabled,
                   device_task, readerVars, okSinceClear, lastop, gap>>

\* disable_devices: disable(dev) returned; a CancelledError inside it is
\* logged by disarm of devio while the session is active.  After the last
\* device resolve_services waits for the next value; the handler of
\* restart_devices re-raises once CM_STOP is set.
DisableOk(m) ==
    /\ impl = "connect"
    /\ pc[m] = "disable"
    /\ ccancel[m] = NoCancel \/ is_active
    /\ enabled' = [enabled EXCEPT ![CurDev(m)] = FALSE]
    /\ IF idx[m] < LastDev(m)
       THEN /\ idx' = [idx EXCEPT ![m] = @ + 1]
            /\ ConnStay(m)
            /\ UNCHANGED <<pc, hctx, monitor, teardown>>
       ELSE IF hctx[m] = "cancel" /\ cm_stop
       THEN /\ \E do, ro \in RemoveOutcome :
                    Teardown(m, do, ro) /\ ConnFinish(m, "cancelled")
            /\ hctx' = [hctx EXCEPT ![m] = "none"]
            /\ idx' = [idx EXCEPT ![m] = 1]
       ELSE /\ pc' = [pc EXCEPT ![m] = "resolve"]
            /\ hctx' = [hctx EXCEPT ![m] = "none"]
            /\ ConnStay(m)
            /\ idx' = [idx EXCEPT ![m] = 1]
            /\ UNCHANGED <<monitor, teardown>>
    /\ UNCHANGED <<transportVars, modeVars, closeVars, apc, scope_open, connected, trusted, device_task, readerVars,
                   histEnable, lastop, gap, oplog, happy>>

\* disable(dev) raised: an exception of the disable function itself, or the
\* CancelledError that disarm of devio re-raises when the session is not
\* active.  Nothing in disable_devices catches it.
DisableRaise(m, how) ==
    /\ impl = "connect"
    /\ pc[m] = "disable"
    /\ \/ how = "failed" /\ ccancel[m] = NoCancel
       \/ how = "cancelled" /\ ccancel[m] # NoCancel /\ ~is_active
    /\ \E do, ro \in RemoveOutcome :
            Teardown(m, do, ro) /\ ConnFinish(m, EndKind(how, do, ro))
    /\ idx' = [idx EXCEPT ![m] = 1]
    /\ hctx' = [hctx EXCEPT ![m] = "none"]
    /\ UNCHANGED <<transportVars, modeVars, closeVars, apc, scope_open, connected, trusted, enabled,
                   device_task, readerVars, histEnable, lastop, gap, oplog, happy>>


\* ---------------------------------------------------- session (session.py)

\* Session.stop().
Stop ==
    /\ impl = "connect"
    /\ StopEffect("none")
    /\ UNCHANGED <<transportVars, modeVars, closeVars, awaitVars, teardown, cm_stop, scope_open, connected, connVars, enabled,
                   device_task, readerVars, histEnable>>

\* "await session" up to its first suspension: Session.__await__ waits for
\* Session._event; when the event is set already the wait returns at once
\* and the finally block stops the session.
AwaitSession ==
    /\ impl = "connect"
    /\ apc = "none"
    /\ IF sevent
       THEN /\ apc' = "done"
            /\ StopEffect("none")
       ELSE /\ apc' = "wait"
            /\ UNCHANGED <<is_active, task, ccancel>>
    /\ UNCHANGED <<transportVars, modeVars, closeVars, teardown, sevent, cm_stop, scope_open, connected,
                   connVars, enabled, device_task, readerVars, histEnable>>

\* The task that awaits the session is cancelled by its owner.
CancelAwait ==
    /\ impl = "connect"
    /\ apc = "wait"
    /\ apc' = "cancelling"
    /\ UNCHANGED <<transportVars, modeVars, closeVars, teardown, sevent, cm_stop, scope_open, is_active,
                   connected, connVars, ccancel, enabled, device_task, task,
                   readerVars, histEnable>>

\* The task that awaits the session is resumed, with the result of the
\* wait or with its cancellation: the finally block of Session.__await__
\* stops the session.
AwaitResume ==
    /\ impl = "connect"
    /\ \/ apc = "wait" /\ sevent /\ apc' = "done"
       \/ apc = "cancelling" /\ apc' = "cancelled"
    /\ StopEffect("none")
    /\ UNCHANGED <<transportVars, modeVars, closeVars, teardown, sevent, cm_stop, scope_open, connected,
                   connVars, enabled, device_task, readerVars, histEnable>>

\* Session.disconnect_devices(mac): the tasks of the devices d with
\* d.mac == mac are cancelled; mac is any address.
DisconnectDevices(m) ==
    /\ impl = "connect"
    /\ task' = CancelDeviceTasks(task, DevsOf(m), CONNECTION_ERROR)
    /\ UNCHANGED <<transportVars, modeVars, closeVars, awaitVars, teardown, cm_stop, scope_open, is_active, connected, connVars, ccancel,
                   enabled, device_task, readerVars, histEnable>>

\* connect(): the finally block after the body of the scope.  CM_STOP is
\* set and the tasks are cancelled; bt_unregister_agent and cm_close are
\* called through disarm, ending with uo and co: with CM_STOP set disarm
\* re-raises a CancelledError, an exception is logged.
ScopeExit(uo, co) ==
    /\ impl = "connect"
    /\ scope_open
    /\ scope_open' = FALSE
    /\ cm_stop' = TRUE
    /\ ccancel' = [m \in MACS |-> CancelConn(pc[m], ccancel[m], NO_MSG)]
    /\ closelog' = IF uo = "cancelled" THEN <<"cancel", "unregister">>
                   ELSE <<"cancel", "unregister", "close">>
    /\ scope_raised' = (uo = "cancelled" \/ co = "cancelled")
    /\ UNCHANGED <<transportVars, modeVars, awaitVars, teardown, is_active, connected, connVars, enabled, device_task, task,
                   readerVars, histEnable>>

\* ------------------------------------------ readers (session.py, devio.py)

\* A task created with asyncio.create_task alone, unknown to the session.
CreateUnmanaged(r, d) ==
    /\ task' = [task EXCEPT ![r] = NewTask]
    /\ UNCHANGED device_task

\* Session.create_task: the task joins device_task[device].
CreateTask(r, d) ==
    /\ task' = [task EXCEPT ![r] = NewTask]
    /\ device_task' = [device_task EXCEPT ![d] = @ \cup {r}]

\* Session.create_future of the read paths: a managed task like those of
\* create_task, registered in device_task[device].
CreateFuture(r, d) == CreateTask(r, d)

\* The read() call ends with res; nothing of it is left but the result.
ReadEnds(r, res) ==
    /\ rpc' = [rpc EXCEPT ![r] = "idle"]
    /\ rres' = [rres EXCEPT ![r] = res]
    /\ rdev' = [rdev EXCEPT ![r] = "d1"]

\* read(device) up to its first suspension: connected() raises when the
\* session is not active, else wait_connected creates the task that waits
\* for the event and awaits it.
ReadCall(r, d) ==
    /\ impl = "connect"
    /\ rpc[r] = "idle"
    /\ IF is_active
       THEN /\ CreateTask(r, d)
            /\ rpc' = [rpc EXCEPT ![r] = "gate"]
            /\ rdev' = [rdev EXCEPT ![r] = d]
            /\ rres' = [rres EXCEPT ![r] = NoResult]
       ELSE /\ ReadEnds(r, Result("CancelledError", NOT_RUNNING))
            /\ UNCHANGED <<task, device_task>>
    /\ UNCHANGED <<transportVars, modeVars, closeVars, awaitVars, teardown, cm_stop, scope_open, is_active, connected, connVars, ccancel,
                   enabled, histEnable>>

\* _run_device_task: the exception a task cancelled with msg ends with.
Translate(msg) ==
    IF msg = CONNECTION_ERROR
    THEN Result("ConnectionError", "Device disconnected")
    ELSE Result("CancelledError", msg)

\* The managed task ends with res; its done callback discards it from
\* device_task.  The task that waited for the event is awaited by
\* wait_connected, which is resumed in a later step; the end of an I/O task
\* is the end of the read() call.
TaskDone(r, res) ==
    /\ device_task' = [device_task EXCEPT ![rdev[r]] = @ \ {r}]
    /\ IF rpc[r] = "gate"
       THEN /\ task' = [task EXCEPT ![r] = [st |-> "done", cmsg |-> NoCancel,
                                            res |-> res]]
            /\ UNCHANGED readerVars
       ELSE /\ task' = [task EXCEPT ![r] = NoTask]
            /\ ReadEnds(r, res)

\* One step of a managed task.  A task cancelled before its first step
\* never enters _run_device_task: the CancelledError is what its awaiter
\* gets.  A started task is resumed with its result or with the
\* CancelledError of its future, which _run_device_task translates.
\* The first step of the gate task is Event.wait(), of the I/O task
\* Notifications.get(), which looks the subscription up.
TaskStep(r) ==
    /\ impl = "connect"
    /\ rpc[r] \in {"gate", "io"}
    /\ \/ /\ task[r].st = "new" /\ task[r].cmsg # NoCancel
          /\ TaskDone(r, Result("CancelledError", task[r].cmsg))
       \/ /\ task[r].st = "new" /\ task[r].cmsg = NoCancel
          /\ IF rpc[r] = "gate"
             THEN IF connected[MacOf(rdev[r])]
                  THEN TaskDone(r, Ok)
                  ELSE /\ task' = [task EXCEPT ![r] = [@ EXCEPT !.st = "wait"]]
                       /\ UNCHANGED <<device_task, readerVars>>
             ELSE IF enabled[rdev[r]]
                  THEN /\ task' = [task EXCEPT ![r] = [@ EXCEPT !.st = "wait"]]
                       /\ UNCHANGED <<device_task, readerVars>>
                  ELSE TaskDone(r, Result("KeyError", "no subscription"))
       \/ /\ \/ task[r].st = "woken"
             \/ task[r].st = "wait" /\ task[r].cmsg # NoCancel
          /\ IF task[r].cmsg # NoCancel
             THEN TaskDone(r, Translate(task[r].cmsg))
             ELSE TaskDone(r, Ok)
    /\ UNCHANGED <<transportVars, modeVars, closeVars, awaitVars, teardown, cm_stop, scope_open, is_active, connected, connVars, ccancel,
                   enabled, histEnable>>

\* The next notified value of the data characteristic arrives.
DataArrives(r) ==
    /\ impl = "connect"
    /\ rpc[r] = "io" /\ task[r].st = "wait" /\ task[r].cmsg = NoCancel
    /\ task' = [task EXCEPT ![r] = [@ EXCEPT !.st = "woken"]]
    /\ UNCHANGED <<transportVars, modeVars, closeVars, awaitVars, teardown, cm_stop, scope_open, is_active, connected, connVars, ccancel,
                   enabled, device_task, readerVars, histEnable>>

\* wait_connected is resumed after the task it awaited is done.  The
\* exception of the task is the exception of read(); else connected()
\* yields the session only if it is still active, and the read path creates
\* the I/O task and awaits it.  A context manager that does not yield makes
\* "async with" raise RuntimeError.
ReaderResume(r) ==
    /\ impl = "connect"
    /\ rpc[r] = "gate" /\ task[r].st = "done"
    /\ IF task[r].res # Ok
       THEN /\ ReadEnds(r, task[r].res)
            /\ task' = [task EXCEPT ![r] = NoTask]
            /\ UNCHANGED device_task
       ELSE IF is_active
       THEN /\ CreateFuture(r, rdev[r])
            /\ rpc' = [rpc EXCEPT ![r] = "io"]
            /\ UNCHANGED <<rres, rdev>>
       ELSE /\ ReadEnds(r, Result("RuntimeError", "generator didn't yield"))
            /\ task' = [task EXCEPT ![r] = NoTask]
            /\ UNCHANGED device_task
    /\ UNCHANGED <<transportVars, modeVars, closeVars, awaitVars, teardown, cm_stop, scope_open, is_active, connected, connVars, ccancel,
                   enabled, histEnable>>

\* ------------------------------------- ConnectionManager class (cm.py)

sessionVars == <<cm_stop, scope_open, is_active, device_task, task, readerVars,
                 awaitVars, hctx, oplog, happy>>

\* ConnectionManager._disable: the event is cleared, every device disabled.
\* It does not suspend.
CMDisable(m) ==
    /\ connected' = [connected EXCEPT ![m] = FALSE]
    /\ okSinceClear' = [okSinceClear EXCEPT ![m] = FALSE]
    /\ enabled' = [d \in DEVICES |-> IF MacOf(d) = m THEN FALSE ELSE enabled[d]]

\* The loop of _reconnect: while not connected and self._process, remove
\* (_preempt_remove_dev swallows every failure) and connect.  With _process
\* cleared the loop is left, _resolve_services ends at once and the finally
\* block of _reconnect stops the monitor.
CMLoopTop(m, ro, entered) ==
    IF process
    THEN /\ pc' = [pc EXCEPT ![m] = "connect"]
         /\ lastop' = [lastop EXCEPT ![m] = IF ro = "ok" THEN "remove_ok" ELSE "remove_err"]
         /\ gap' = [gap EXCEPT ![m] = entered]
    ELSE /\ pc' = [pc EXCEPT ![m] = "returned"]
         /\ monitor' = [monitor EXCEPT ![m] = FALSE]
         /\ UNCHANGED <<lastop, gap>>

\* _restart is entered or its loop goes round: _resolve_services waits for
\* the next value while self._process.
CMWaitResolved(m) ==
    IF process
    THEN /\ pc' = [pc EXCEPT ![m] = "resolve"]
         /\ UNCHANGED monitor
    ELSE /\ pc' = [pc EXCEPT ![m] = "returned"]
         /\ monitor' = [monitor EXCEPT ![m] = FALSE]

\* _reconnect up to its first suspension.
CMStart(m, ro) ==
    /\ impl = "ConnectionManager"
    /\ pc[m] = "new" /\ ccancel[m] = NoCancel /\ process
    /\ monitor' = [monitor EXCEPT ![m] = TRUE]
    /\ CMLoopTop(m, ro, "first")
    /\ UNCHANGED <<transportVars, modeVars, closeVars, teardown, sessionVars, connected, idx, ccancel, trusted,
                   enabled, histEnable>>

\* A task cancelled before its first step never runs its coroutine.
CMStartCancelled(m) ==
    /\ impl = "ConnectionManager"
    /\ pc[m] = "new" /\ ccancel[m] # NoCancel
    /\ pc' = [pc EXCEPT ![m] = "cancelled"]
    /\ ccancel' = [ccancel EXCEPT ![m] = NoCancel]
    /\ UNCHANGED <<transportVars, modeVars, closeVars, teardown, sessionVars, connected, idx, monitor, trusted,
                   enabled, histEnable, lastop, gap>>

\* _connect_dev: bt_connect returned; the device is set trusted.
CMConnectOk(m) ==
    /\ impl = "ConnectionManager"
    /\ pc[m] = "connect" /\ ccancel[m] = NoCancel
    /\ trusted' = [trusted EXCEPT ![m] = TRUE]
    /\ lastop' = [lastop EXCEPT ![m] = "conn_ok"]
    /\ gap' = [gap EXCEPT ![m] = "first"]
    /\ CMWaitResolved(m)
    /\ UNCHANGED <<transportVars, modeVars, closeVars, teardown, sessionVars, connected, idx, ccancel, enabled,
                   histEnable>>

\* _connect_dev: bt_connect raised an exception with the text
\* "Already Exists": connected is True, bt_device_set_trusted is in the
\* else branch and is not called.
CMConnectExists(m) ==
    /\ impl = "ConnectionManager"
    /\ pc[m] = "connect" /\ ccancel[m] = NoCancel
    /\ lastop' = [lastop EXCEPT ![m] = "conn_ae"]
    /\ gap' = [gap EXCEPT ![m] = "first"]
    /\ CMWaitResolved(m)
    /\ UNCHANGED <<transportVars, modeVars, closeVars, teardown, sessionVars, connected, idx, ccancel, trusted,
                   enabled, histEnable>>

\* _connect_dev: another exception, or a CancelledError while _process is
\* set: _handle_connection_error sleeps.
CMConnectFail(m) ==
    /\ impl = "ConnectionManager"
    /\ pc[m] = "connect"
    /\ ccancel[m] = NoCancel \/ process
    /\ pc' = [pc EXCEPT ![m] = "sleep"]
    /\ lastop' = [lastop EXCEPT ![m] = "conn_fail"]
    /\ ccancel' = [ccancel EXCEPT ![m] = NoCancel]
    /\ UNCHANGED <<transportVars, modeVars, closeVars, teardown, sessionVars, connected, idx, monitor, trusted,
                   enabled, histEnable, gap>>

\* _connect_dev: CancelledError with _process cleared is re-raised; the
\* try block of _reconnect has not been entered.
CMConnectCancelled(m) ==
    /\ impl = "ConnectionManager"
    /\ pc[m] = "connect" /\ ccancel[m] # NoCancel /\ ~process
    /\ pc' = [pc EXCEPT ![m] = "cancelled"]
    /\ ccancel' = [ccancel EXCEPT ![m] = NoCancel]
    /\ UNCHANGED <<transportVars, modeVars, closeVars, teardown, sessionVars, connected, idx, monitor, trusted,
                   enabled, histEnable, lastop, gap>>

\* The sleep of _handle_connection_error is over.
CMSleepDone(m, ro) ==
    /\ impl = "ConnectionManager"
    /\ pc[m] = "sleep" /\ ccancel[m] = NoCancel
    /\ CMLoopTop(m, ro, "slept")
    /\ IF process THEN UNCHANGED monitor ELSE TRUE
    /\ UNCHANGED <<transportVars, modeVars, closeVars, teardown, sessionVars, connected, idx, ccancel, trusted,
                   enabled, histEnable>>

\* Cancelled in the sleep of _handle_connection_error.
CMSleepCancelled(m) ==
    /\ impl = "ConnectionManager"
    /\ pc[m] = "sleep" /\ ccancel[m] # NoCancel
    /\ pc' = [pc EXCEPT ![m] = "cancelled"]
    /\ ccancel' = [ccancel EXCEPT ![m] = NoCancel]
    /\ UNCHANGED <<transportVars, modeVars, closeVars, teardown, sessionVars, connected, idx, monitor, trusted,
                   enabled, histEnable, lastop, gap>>

\* _resolve_services: the next value arrived.  True: _restart awaits
\* _enable, which awaits the first dev.enable().  False: _disable.
CMResolved(m, v) ==
    /\ impl = "ConnectionManager"
    /\ pc[m] = "resolve" /\ ccancel[m] = NoCancel /\ process
    /\ IF v
       THEN /\ pc' = [pc EXCEPT ![m] = "enable"]
            /\ idx' = [idx EXCEPT ![m] = 1]
            /\ enOk' = [enOk EXCEPT ![m] = {}]
            /\ UNCHANGED <<connected, okSinceClear, enabled>>
       ELSE /\ CMDisable(m)
            /\ UNCHANGED <<pc, idx, enOk>>
    /\ UNCHANGED <<transportVars, modeVars, closeVars, teardown, sessionVars, ccancel, monitor, trusted,
                   lastEnable, lastop, gap>>

\* Cancelled while waiting for ServicesResolved: the finally block of
\* _reconnect stops the monitor.
CMResolveCancelled(m) ==
    /\ impl = "ConnectionManager"
    /\ pc[m] = "resolve" /\ ccancel[m] # NoCancel
    /\ pc' = [pc EXCEPT ![m] = "cancelled"]
    /\ monitor' = [monitor EXCEPT ![m] = FALSE]
    /\ ccancel' = [ccancel EXCEPT ![m] = NoCancel]
    /\ UNCHANGED <<transportVars, modeVars, closeVars, teardown, sessionVars, connected, idx, trusted, enabled,
                   histEnable, lastop, gap>>

\* _enable: dev.enable() returned within the timeout.  After the last
\* device _restart sets the event.
CMEnableOk(m) ==
    /\ impl = "ConnectionManager"
    /\ pc[m] = "enable" /\ ccancel[m] = NoCancel
    /\ lastEnable' = [lastEnable EXCEPT ![CurDev(m)] = "ok"]
    /\ enabled' = [enabled EXCEPT ![CurDev(m)] = TRUE]
    /\ IF idx[m] < LastDev(m)
       THEN /\ idx' = [idx EXCEPT ![m] = @ + 1]
            /\ enOk' = [enOk EXCEPT ![m] = @ \cup {CurDev(m)}]
            /\ UNCHANGED <<pc, connected, okSinceClear, monitor>>
       ELSE /\ connected' = [connected EXCEPT ![m] = TRUE]
            /\ okSinceClear' = [okSinceClear EXCEPT
                    ![m] = @ \/ enOk[m] \cup {CurDev(m)} = DevsOf(m)]
            /\ enOk' = [enOk EXCEPT ![m] = {}]
            /\ CMWaitResolved(m)
            /\ idx' = [idx EXCEPT ![m] = 1]
    /\ UNCHANGED <<transportVars, modeVars, closeVars, teardown, sessionVars, ccancel, trusted, lastop, gap>>

\* _enable: wait_for raised TimeoutError; it is logged and the pass starts
\* again with the first device.
CMEnableTimeout(m) ==
    /\ impl = "ConnectionManager"
    /\ pc[m] = "enable" /\ ccancel[m] = NoCancel /\ process
    /\ lastEnable' = [lastEnable EXCEPT ![CurDev(m)] = "timeout"]
    /\ idx' = [idx EXCEPT ![m] = 1]
    /\ enOk' = [enOk EXCEPT ![m] = {}]
    /\ UNCHANGED <<transportVars, modeVars, closeVars, teardown, sessionVars, pc, connected, okSinceClear, ccancel,
                   monitor, trusted, enabled, lastop, gap>>

\* _restart: _enable raised CancelledError.  With _process set the devices
\* are disabled and the loop goes on; else it is re-raised.
CMEnableCancelled(m) ==
    /\ impl = "ConnectionManager"
    /\ pc[m] = "enable"
    /\ lastEnable' = [lastEnable EXCEPT ![CurDev(m)] = "cancelled"]
    /\ enOk' = [enOk EXCEPT ![m] = {}]
    /\ ccancel' = [ccancel EXCEPT ![m] = NoCancel]
    /\ IF process
       THEN /\ CMDisable(m)
            /\ pc' = [pc EXCEPT ![m] = "resolve"]
            /\ UNCHANGED monitor
       ELSE /\ pc' = [pc EXCEPT ![m] = "cancelled"]
            /\ monitor' = [monitor EXCEPT ![m] = FALSE]
            /\ UNCHANGED <<connected, okSinceClear, enabled>>
    /\ idx' = [idx EXCEPT ![m] = 1]
    /\ UNCHANGED <<transportVars, modeVars, closeVars, teardown, sessionVars, trusted, lastop, gap>>

\* _restart: _enable raised another exception: the devices are disabled.
CMEnableError(m) ==
    /\ impl = "ConnectionManager"
    /\ pc[m] = "enable" /\ ccancel[m] = NoCancel
    /\ lastEnable' = [lastEnable EXCEPT ![CurDev(m)] = "failed"]
    /\ enOk' = [enOk EXCEPT ![m] = {}]
    /\ CMDisable(m)
    /\ CMWaitResolved(m)
    /\ idx' = [idx EXCEPT ![m] = 1]
    /\ UNCHANGED <<transportVars, modeVars, closeVars, teardown, sessionVars, ccancel, trusted, lastop, gap>>

\* The step of close() that raises an exception, if any: a dev.close(),
\* bt_unregister_agent or cm_close.
CloseOutcome == {"ok", "dev", "agent", "handle"}

\* What close() has done when its step co raised: the except clause logs
\* the exception and the steps after it are skipped; the finally block
\* cancels the tasks.
CloseSteps(co) ==
    CASE co = "dev" -> <<"close_devices", "cancel">>
      [] co = "agent" -> <<"close_devices", "disconnect", "set_events",
                           "unregister", "cancel">>
      [] OTHER -> <<"close_devices", "disconnect", "set_events",
                    "unregister", "close", "cancel">>

\* ConnectionManager._disconnect: bt_disconnect, then bt_remove unless
\* bt_disconnect raised.
Disconnect(do) ==
    IF do = "ok" THEN <<"disconnect", "remove">> ELSE <<"disconnect">>

\* ConnectionManager.close(): _process is cleared; the devices are closed
\* (Sensor.close disables the sensor) and disconnected and every event is
\* set, unless a dev.close() raised;
\* then the agent is unregistered and the handle closed; the finally block
\* cancels the tasks.
CMClose(co, do) ==
    /\ impl = "ConnectionManager"
    /\ process' = FALSE
    /\ connected' = IF co # "dev" THEN [m \in MACS |-> TRUE] ELSE connected
    /\ teardown' = IF co # "dev" THEN [m \in MACS |-> Disconnect(do)] ELSE teardown
    /\ enabled' = IF co # "dev" THEN [d \in DEVICES |-> FALSE] ELSE enabled
    /\ closelog' = CloseSteps(co)
    /\ ccancel' = [m \in MACS |-> CancelConn(pc[m], ccancel[m], NO_MSG)]
    /\ UNCHANGED <<transportVars, impl, scope_raised, sessionVars, pc, idx, monitor, trusted,
                   histEnable, lastop, gap>>

\* ------------------------------------------------------------------ Next

ConnStep(m) ==
    \/ \E ro \in RemoveOutcome : StartConn(m, ro)
    \/ StartCancelled(m)
    \/ ConnectOk(m)
    \/ ConnectExists(m)
    \/ ConnectFail(m)
    \/ \E ro \in RemoveOutcome : ConnectFailStopped(m, ro)
    \/ \E ro \in RemoveOutcome : SleepDone(m, ro)
    \/ SleepCancelled(m)
    \/ \E v \in BOOLEAN : Resolved(m, v)
    \/ ResolveCancelled(m)
    \/ EnableOk(m)
    \/ EnableCancelled(m)
    \/ EnableError(m)
    \/ DisableOk(m)
    \/ \E how \in {"failed", "cancelled"} : DisableRaise(m, how)

CMStep(m) ==
    \/ \E ro \in {"ok", "error"} : CMStart(m, ro)
    \/ CMStartCancelled(m)
    \/ CMConnectOk(m)
    \/ CMConnectExists(m)
    \/ CMConnectFail(m)
    \/ CMConnectCancelled(m)
    \/ \E ro \in {"ok", "error"} : CMSleepDone(m, ro)
    \/ CMSleepCancelled(m)
    \/ \E v \in BOOLEAN : CMResolved(m, v)
    \/ CMResolveCancelled(m)
    \/ CMEnableOk(m)
    \/ CMEnableTimeout(m)
    \/ CMEnableCancelled(m)
    \/ CMEnableError(m)

ReaderStep(r) ==
    \/ \E d \in DEVICES : ReadCall(r, d)
    \/ TaskStep(r)
    \/ DataArrives(r)
    \/ ReaderResume(r)

Next ==
    \/ \E m \in MACS : ConnStep(m)
    \/ \E r \in READERS : ReaderStep(r)
    \/ Stop
    \/ AwaitSession
    \/ CancelAwait
    \/ AwaitResume
    \/ \E m \in ADDRS : DisconnectDevices(m)
    \/ \E uo, co \in RemoveOutcome : ScopeExit(uo, co)
    \/ \E m \in MACS : CMStep(m)
    \/ \E co \in CloseOutcome : \E do \in {"ok", "error"} : CMClose(co, do)

Spec == Init /\ [][Next]_vars

\* With weak fairness of the connection task: the event loop runs a task
\* that is ready, and the bus answers the call the task waits for.
FairSpec == Spec /\ \A m \in MACS : WF_vars(ConnStep(m))

\* ---------------------------------------------------------------- claims

Connect == impl = "connect"

\* A step that sets connected[m] ends a pass of enable_devices in which
\* every enable of the MAC returned.
SetByFullPass(m) ==
    (~connected[m] /\ connected'[m]) =>
        /\ pc[m] = "enable"
        /\ enOk[m] \cup {CurDev(m)} = DevsOf(m)
        /\ \A d \in DevsOf(m) : lastEnable'[d] = "ok"

\* A step in which an enable fails or is cancelled does not set connected[m].
FailedPassSetsNothing(m) ==
    (pc[m] = "enable" /\ lastEnable'[CurDev(m)] \in {"failed", "cancelled"}) =>
        (connected'[m] => connected[m])

\* C1: in a connect() session connected[mac] is set only if, since it was
\* last cleared, a pass of enable_devices ended in which enable returned
\* for every device of the MAC; a pass in which an enable fails or is
\* cancelled never sets it.
C1_ConnectedOnlyAfterFullPass ==
    /\ [](Connect => \A m \in MACS : connected[m] => okSinceClear[m])
    /\ [][Connect => \A m \in MACS : SetByFullPass(m) /\ FailedPassSetsNothing(m)]_vars

C1_Witness ==
    /\ Connect
    /\ \E m \in MACS : connected[m] /\ \A d \in DevsOf(m) : lastEnable[d] = "ok"


\* The I/O task of reader r runs its first step: the device I/O starts.
IOStarts(r) == rpc[r] = "io" /\ task[r].st = "new" /\ task'[r].st = "wait"

\* C2: under every interleaving of a reader with the connection task, a
\* read starts its device I/O only while connected[mac] is set; none starts
\* I/O on a device that is being disabled, even when ServicesResolved=false
\* is processed between the end of the gate wait and the resumption of the
\* reader.
C2_IOOnlyWhileConnected ==
    [][\A r \in READERS : IOStarts(r) => connected[MacOf(rdev[r])]]_vars

\* The gate has let the reader through and the event is clear again.
C2_Witness ==
    \E r \in READERS :
        /\ rpc[r] = "gate" /\ task[r].st = "done" /\ task[r].res = Ok
        /\ ~connected[MacOf(rdev[r])] /\ is_active

\* The gate task of r gets its result in this step.
GateOpens(r) ==
    /\ rpc[r] = "gate" /\ task[r].st \in {"new", "wait"}
    /\ \/ task'[r].st = "woken"
       \/ task'[r].st = "done" /\ task'[r].res = Ok

\* The read of r leaves the gate after the session was stopped.
LeavesGateStopped(r) == rpc[r] = "gate" /\ ~is_active /\ rpc'[r] # "gate"

StopResult(res) ==
    \/ res.kind = "ConnectionError"
    \/ res = Result("CancelledError", SESSION_STOPPED)

\* C3: a read on a device whose connected[mac] is clear does no device I/O
\* and does not get through the gate until connected[mac] is set; a read
\* blocked on the gate when the session stops ends with ConnectionError or
\* with the cancellation of the session stop.
C3_GateAndStop ==
    [][\A r \in READERS :
        /\ GateOpens(r) => connected'[MacOf(rdev[r])]
        /\ LeavesGateStopped(r) => rpc'[r] = "idle" /\ StopResult(rres'[r])]_vars

\* The part of C3 about the gate alone.
C3_GateOnly ==
    [][\A r \in READERS : GateOpens(r) => connected'[MacOf(rdev[r])]]_vars

\* A read that was let through the gate ends, after a stop, with the error
\* of a context manager that did not yield.
C3_Witness ==
    \E r \in READERS : rres[r].kind = "RuntimeError" /\ ~is_active


\* The operations of the task on a bus where remove and connect succeed
\* and ServicesResolved changes to true, up to the first connected[m].
ExpectedLog(m) ==
    <<"monitor", "remove", "connect", "trusted", "resolved">> \o DevSeq(m)
        \o <<"connected">>

IsPrefix(a, b) == Len(a) <= Len(b) /\ SubSeq(b, 1, Len(a)) = a

\* The recorded operations follow the order, and connected[m] is set by
\* the step that ends the record, and not before.
InOrder(m) ==
    /\ happy[m] => IsPrefix(oplog[m], ExpectedLog(m))
    /\ (happy[m] /\ connected[m]) => oplog[m] = ExpectedLog(m)

SetAtEnd(m) ==
    (oplog[m] # ExpectedLog(m) /\ oplog'[m] = ExpectedLog(m)) =>
        /\ connected'[m] /\ trusted'[m] /\ monitor'[m]
        /\ \A d \in DevsOf(m) : lastEnable'[d] = "ok"

InFlight(r, m) ==
    /\ task[r].st \in {"new", "wait", "woken"}
    /\ \E d \in DevsOf(m) : r \in device_task[d]

\* The connection task of m observes ServicesResolved=false.
ObservesFalse(m) == pc[m] = "resolve" /\ pc'[m] = "disable" /\ hctx'[m] = "false"

\* C5: when the connection task observes ServicesResolved=false for a MAC
\* it disables every device of the MAC with connected[mac] clear, and every
\* reader task in flight for a device of the MAC (gate wait or pending I/O)
\* is cancelled with the cause "Connection error".
C5_DisableCancelsReaders ==
    [][Connect => \A m \in MACS : ObservesFalse(m) =>
        /\ ~connected'[m]
        /\ \A r \in READERS : InFlight(r, m) => task'[r].cmsg = CONNECTION_ERROR]_vars

\* The part of C5 the connection task does: the event is clear while the
\* devices are disabled, one after the other.
C5_ClearWhileDisabling ==
    Connect => \A m \in MACS : pc[m] = "disable" => ~connected[m]

\* disable_devices has ended after ServicesResolved=false and a read that
\* was in flight is still waiting for its data, not cancelled.
C5_Witness ==
    /\ Connect
    /\ \E m \in MACS : \E r \in READERS :
        /\ pc[m] = "resolve" /\ lastop[m] # "none" /\ ~connected[m]
        /\ \A d \in DevsOf(m) : ~enabled[d]
        /\ rpc[r] = "io" /\ task[r].st = "wait" /\ task[r].cmsg = NoCancel

\* C6: if connected[mac] is set then for every device of the MAC the last
\* enable call that ended returned successfully, also when resolved=true
\* is observed again with connected[mac] set and the repeated enable fails
\* or is cancelled, and after the connection task has ended.
C6_ConnectedImpliesEnabled ==
    \A m \in MACS : connected[m] =>
        \A d \in DevsOf(m) : lastEnable[d] \in {"ok", "none"}

\* connect(): the repeated enable failed, the task has ended, the event is
\* still set.
C6_Witness ==
    /\ Connect
    /\ \E m \in MACS : connected[m] /\ pc[m] = "failed"
                        /\ \E d \in DevsOf(m) : lastEnable[d] = "failed"


C7_RemoveBeforeConnect ==
    /\ [](Connect => \A m \in MACS : pc[m] = "connect" =>
            lastop[m] \in {"remove_ok", "remove_err"})
    /\ [][Connect => \A m \in MACS :
            /\ (lastop'[m] = "remove_err" /\ lastop[m] # "remove_err")
                    => pc'[m] = "connect"
            /\ (pc[m] \in {"new", "connect", "sleep"} /\ pc'[m] = "resolve")
                    => lastop'[m] \in {"conn_ok", "conn_ae"}]_vars

AlreadyExists(m) == pc[m] = "connect" /\ lastop'[m] = "conn_ae"

Established(m) == trusted'[m] /\ pc'[m] = "resolve"

\* C8: when ConnectDevice fails with "Already Exists" while the manager is
\* running, the connection is taken as established: the device is set
\* trusted, there is no sleep and no further remove/connect attempt, and
\* the task goes on to wait for ServicesResolved.
C8_AlreadyExistsEstablished ==
    [][\A m \in MACS : AlreadyExists(m) => Established(m)]_vars

\* C8 for create_connection of connect() alone.
C8_CreateConnection ==
    [][Connect => \A m \in MACS : AlreadyExists(m) => Established(m)]_vars

\* ConnectionManager._connect_dev: established, waiting for
\* ServicesResolved, and not trusted.
C8_Witness ==
    /\ ~Connect
    /\ \E m \in MACS : lastop[m] = "conn_ae" /\ pc[m] = "resolve" /\ ~trusted[m]

\* stop() is called: by the owner of the session, or by the done callback
\* of a connection task that ended with an exception.
StopCalled == Stop \/ (is_active /\ ~is_active')

\* No managed task is left uncancelled: each has a cancellation pending,
\* with the cause of stop() unless it was being cancelled already.
AllCancelled ==
    /\ \A r \in AllDeviceTasks :
        /\ task[r].cmsg # NoCancel
        /\ task[r].st \in {"new", "woken"} => task[r].cmsg = SESSION_STOPPED
    /\ \A m \in MACS : ~ConnEnded(pc[m]) /\ pc[m] # "new" => ccancel[m] # NoCancel
    /\ \A m \in MACS : pc[m] = "new" => ccancel[m] = SESSION_STOPPED

\* stop() called again leaves the state as it is.
StopIsNoOp ==
    /\ ~is_active
    /\ CancelDeviceTasks(task, DEVICES, SESSION_STOPPED) = task
    /\ [m \in MACS |-> CancelConn(pc[m], ccancel[m], SESSION_STOPPED)] = ccancel

\* C9: Session.stop() makes the session inactive and cancels every task in
\* device_task and every connection task with "BTZen session stopped";
\* after it none is left uncancelled, and a second stop() changes nothing.
C9_StopCancelsAll ==
    [][StopCalled => (~is_active' /\ AllCancelled' /\ StopIsNoOp')]_vars

\* stop() was called with a device task and the connection task in flight.
C9_Witness ==
    /\ ~is_active
    /\ \E r \in AllDeviceTasks : task[r].cmsg = SESSION_STOPPED
    /\ \E m \in MACS : ccancel[m] = SESSION_STOPPED

\* The managed task of r ends in this step, cancelled with msg.
EndsCancelled(r, msg) ==
    /\ task[r].st \in {"new", "wait", "woken"} /\ task[r].cmsg = msg
    /\ task'[r].st \in {"done", "none"}

\* What the awaiter of the task of r gets.
Surfaces(r) == IF task'[r].st = "done" THEN task'[r].res ELSE rres'[r]

\* C10: a managed device task cancelled with "Connection error" surfaces
\* to its awaiter as ConnectionError; one cancelled with "BTZen session
\* stopped" surfaces as the cancellation itself, never as ConnectionError.
C10_CancelTranslation ==
    [][\A r \in READERS :
        /\ EndsCancelled(r, CONNECTION_ERROR)
                => Surfaces(r).kind = "ConnectionError"
        /\ EndsCancelled(r, SESSION_STOPPED)
                => Surfaces(r) = Result("CancelledError", SESSION_STOPPED)]_vars

\* The part of C10 that holds: a task that has started is translated.
C10_StartedTasks ==
    [][\A r \in READERS :
        /\ (EndsCancelled(r, CONNECTION_ERROR) /\ task[r].st # "new")
                => Surfaces(r).kind = "ConnectionError"
        /\ EndsCancelled(r, SESSION_STOPPED)
                => Surfaces(r) = Result("CancelledError", SESSION_STOPPED)]_vars

\* A read ended with the cancellation of a disconnect, not translated.
C10_Witness ==
    \E r \in READERS : rres[r] = Result("CancelledError", CONNECTION_ERROR)

\* The connection task of m is resumed with the cancellation of the scope
\* exit and goes on: it has not ended and it is not in disable_devices of
\* the handler of restart_devices, which re-raises afterwards.
Swallows(m) ==
    /\ ~scope_open /\ cm_stop
    /\ ccancel[m] # NoCancel /\ ccancel'[m] = NoCancel
    /\ ~ConnEnded(pc'[m])
    /\ ~(pc'[m] = "disable" /\ hctx'[m] = "cancel")

\* C11: a connection task cancelled because the session is stopping (exit
\* of the connect scope) lets the cancellation propagate and ends, at
\* whatever suspension point it was (ConnectDevice, the retry sleep, the
\* ServicesResolved wait, an enable or a disable); it never swallows the
\* cancellation and goes on with its loop.
C11_CancelPropagates ==
    [][Connect => \A m \in MACS : ~Swallows(m)]_vars

\* The part of C11 that holds: cancelled in the sleep, in the wait for
\* ServicesResolved or in an enable, the task ends or runs the handler
\* that re-raises.
C11_SleepResolveEnable ==
    [][Connect => \A m \in MACS :
        pc[m] \in {"sleep", "resolve", "enable"} => ~Swallows(m)]_vars

\* The scope was left, the task was cancelled and is waiting for
\* ServicesResolved again with no cancellation pending.
C11_Witness ==
    /\ Connect /\ ~scope_open
    /\ \E m \in MACS : pc[m] = "resolve" /\ ccancel[m] = NoCancel

FullTeardown == <<"monitor_stop", "disconnect", "remove">>

\* The connection task of m, which has started the monitor, ends.
EndsStarted(m) ==
    /\ ~ConnEnded(pc[m]) /\ ConnEnded(pc'[m])
    /\ pc[m] = "new" => monitor'[m]

\* C12: whenever a connection task ends, cancelled or with an error, after
\* it started the ServicesResolved monitor, it has stopped the monitor and
\* has attempted to disconnect and then to remove its device; a failure of
\* the disconnect or of the removal does not prevent the remaining step.
C12_TeardownOnEnd ==
    [][Connect => \A m \in MACS :
        EndsStarted(m) => ~monitor'[m] /\ teardown'[m] = FullTeardown]_vars

\* The part of C12 that holds: a task that ends inside restart_devices has
\* stopped the monitor and attempted the disconnect, and the removal too
\* unless CM_STOP is set and the disconnect raised CancelledError.
C12_InsideTry ==
    [][Connect => \A m \in MACS :
        (pc[m] \in {"resolve", "enable", "disable"} /\ ConnEnded(pc'[m])) =>
            /\ ~monitor'[m]
            /\ \/ teardown'[m] = FullTeardown
               \/ cm_stop /\ teardown'[m] = <<"monitor_stop", "disconnect">>]_vars

\* The task was cancelled in the retry sleep: it has ended with the monitor
\* running and nothing disconnected or removed.
C12_Witness ==
    /\ Connect
    /\ \E m \in MACS : /\ pc[m] = "cancelled" /\ lastop[m] = "conn_fail"
                       /\ monitor[m] /\ teardown[m] = <<>>

Has(log, op) == \E i \in 1..Len(log) : log[i] = op

\* op1 is in log, and op2 after it.
InThisOrder(log, op1, op2) ==
    \E i, j \in 1..Len(log) : i < j /\ log[i] = op1 /\ log[j] = op2

\* The connect scope is left, or close() is called.
Closes == closelog = <<>> /\ closelog' # <<>>

\* C13: on exit of the connect scope all connection tasks are cancelled,
\* then the agent unregistration is attempted and then the closing of the
\* connection manager handle; a failure of the agent unregistration does
\* not prevent the attempt to close the handle, and neither failure is
\* raised out of the exit.
C13_ExitAttemptsBoth ==
    [][Closes =>
        /\ InThisOrder(closelog', "cancel", "unregister")
        /\ InThisOrder(closelog', "unregister", "close")
        /\ ~scope_raised']_vars

\* The part of C13 that holds for connect(): the tasks are cancelled
\* first, the unregistration is attempted, and the handle close too unless
\* the exit raised (disarm re-raises a CancelledError of the call).
C13_ConnectScope ==
    [][Connect /\ Closes =>
        /\ InThisOrder(closelog', "cancel", "unregister")
        /\ scope_raised' \/ InThisOrder(closelog', "unregister", "close")]_vars

\* ConnectionManager.close(): the agent unregistration raised, the handle
\* was not closed.
C13_Witness ==
    /\ ~Connect /\ ~process
    /\ Has(closelog, "unregister") /\ ~Has(closelog, "close")

\* The device of m has been disconnected and then removed.
Released(m) == InThisOrder(teardown[m], "disconnect", "remove")

\* C14: when the connection manager is closed, every managed device is
\* closed (disabled), then every device is disconnected, then every device
\* is removed, and only after that the agent is unregistered and finally
\* the connection manager handle is closed.
C14_TeardownOrder ==
    Has(closelog, "unregister") =>
        /\ \A d \in DEVICES : ~enabled[d]
        /\ \A m \in MACS : Released(m)
        /\ Has(closelog, "close") => InThisOrder(closelog, "unregister", "close")

\* The part of C14 that holds: close() of ConnectionManager unregisters
\* the agent after it closed the devices and attempted the disconnect, and
\* closes the handle last.
C14_CloseOrder ==
    (~Connect /\ Has(closelog, "unregister")) =>
        /\ \A d \in DEVICES : ~enabled[d]
        /\ \A m \in MACS : Has(teardown[m], "disconnect")
        /\ InThisOrder(closelog, "close_devices", "unregister")
        /\ Has(closelog, "close") => InThisOrder(closelog, "unregister", "close")

\* connect(): the agent is unregistered and the handle closed while the
\* connection task has not ended, its devices are enabled and nothing is
\* disconnected.
C14_Witness ==
    /\ Connect /\ Has(closelog, "close")
    /\ \E m \in MACS : /\ ~ConnEnded(pc[m]) /\ teardown[m] = <<>>
                       /\ \A d \in DevsOf(m) : enabled[d]

\* The task that awaits the session leaves the wait.
AwaitReleased == apc = "wait" /\ apc' = "done"

\* C15: a task awaiting the session object stays blocked as long as the
\* session is active and is released once the session stops, by a call of
\* Session.stop() or by an error in a connection task; when the awaiting
\* task is cancelled, the session is stopped.
C15_AwaitSession ==
    /\ [](apc = "wait" /\ ~is_active => sevent)
    /\ [][/\ AwaitReleased => ~is_active
          /\ apc' = "cancelled" => ~is_active']_vars

\* The part of C15 that holds: the task is not released while the session
\* is active, an error in a connection task stops the session and sets the
\* event the task waits for, and a cancelled awaiting task stops the
\* session.
C15_ErrorAndCancel ==
    [][/\ AwaitReleased => ~is_active
       /\ apc' = "cancelled" => ~is_active'
       /\ (\E m \in MACS : pc[m] # "failed" /\ pc'[m] = "failed")
            => ~is_active' /\ sevent']_vars

\* Session.stop() was called, no connection task has failed, and the task
\* that awaits the session is still waiting for an event nothing sets.
C15_Witness ==
    /\ apc = "wait" /\ ~is_active /\ ~sevent
    /\ \A m \in MACS : pc[m] # "failed"

\* read() is called by r with the session not active and ends at once.
ReadRejected(r) ==
    rpc[r] = "idle" /\ ~is_active /\ rpc'[r] = "idle" /\ rres'[r] # rres[r]

\* C16: read(device) called when the session is not active raises
\* CallError, performs no bus I/O and registers no task in device_tasks.
C16_ReadOutsideSession ==
    [][\A r \in READERS : ReadRejected(r) =>
        /\ rres'[r].kind = "CallError"
        /\ device_task' = device_task /\ task' = task]_vars

\* The part of C16 that holds: the call ends at once with an exception and
\* neither creates a task nor starts I/O.
C16_NoTaskNoIO ==
    [][\A r \in READERS : ReadRejected(r) =>
        /\ rres'[r] = Result("CancelledError", NOT_RUNNING)
        /\ device_task' = device_task /\ task' = task]_vars

\* A read called on a stopped session has ended with CancelledError.
C16_Witness ==
    /\ ~is_active
    /\ \E r \in READERS : rres[r] = Result("CancelledError", NOT_RUNNING)

\* The connection tasks of m that have not ended.
RunningTasks(m) == {k \in DOMAIN pc : TaskMac(k) = m /\ ~ConnEnded(pc[k])}

CallsChange(m) ==
    \/ InCall(m)' # InCall(m)
    \/ \E d \in DevsOf(m) : lastEnable'[d] # lastEnable[d]

AwaitsEnable(m) ==
    pc[m] = "enable" /\ ccancel[m] = NoCancel /\ (Connect \/ process)

\* The enable call the task of m awaits times out.
TimesOut(m) ==
    /\ pc[m] = "enable"
    /\ lastEnable[CurDev(m)] # "timeout" /\ lastEnable'[CurDev(m)] = "timeout"

\* The timeout is logged and the enabling retried: the task keeps running,
\* nothing is stopped and connected[m] is not set.
Retries(m) ==
    /\ pc'[m] = "enable" /\ idx'[m] = 1
    /\ is_active' = is_active /\ process' = process /\ cm_stop' = cm_stop
    /\ connected'[m] = connected[m]

\* C19: each enable call of the connection manager is bounded by the
\* enable timeout; when an enable times out the manager logs and retries,
\* the connection task keeps running, the session is not stopped, and
\* connected[mac] is not set until a pass over all devices ends without a
\* timeout.
C19_EnableTimeout ==
    /\ [](\A m \in MACS : AwaitsEnable(m) => ENABLED CMEnableTimeout(m))
    /\ [][\A m \in MACS :
            /\ TimesOut(m) => Retries(m)
            /\ process' => SetByFullPass(m)]_vars

\* The part of C19 that holds: ConnectionManager._enable.
C19_ConnectionManager ==
    /\ [](\A m \in MACS : (~Connect /\ AwaitsEnable(m)) => ENABLED CMEnableTimeout(m))
    /\ [][\A m \in MACS :
            /\ TimesOut(m) => Retries(m)
            /\ process' => SetByFullPass(m)]_vars

\* connect(): the enable of the second device is awaited, with no timeout.
C19_Witness ==
    /\ Connect
    /\ \E m \in MACS : AwaitsEnable(m) /\ idx[m] = 2 /\ ~ENABLED CMEnableTimeout(m)

\* ConnectionManager: an enable timed out and the pass was started again.
C19_Retried ==
    /\ ~Connect
    /\ \E m \in MACS : pc[m] = "enable" /\ idx[m] = 1 /\ lastEnable[DevSeq(m)[2]] = "timeout"

\* An enable of a device of m that is enabled already ends, not cancelled.
SecondEnableEnds(m) ==
    /\ pc[m] = "enable" /\ enabled[CurDev(m)] /\ ccancel[m] = NoCancel
    /\ idx'[m] # idx[m] \/ pc'[m] # "enable"
    /\ lastEnable'[CurDev(m)] # "cancelled"

\* C20: a second enable with no disable or disconnect in between (when
\* ServicesResolved=true is observed twice in a row) succeeds and leaves
\* the state of a single enable: the same notification subscriptions, the
\* connection task running and connected[mac] set.
C20_EnableIdempotent ==
    [][Connect => \A m \in MACS : SecondEnableEnds(m) =>
        /\ lastEnable'[CurDev(m)] = "ok"
        /\ enabled' = enabled
        /\ ~ConnEnded(pc'[m])
        /\ idx[m] = LastDev(m) => connected'[m]]_vars

\* What the second enable does: it fails and the connection task ends.
C20_SecondEnableFails ==
    [][Connect => \A m \in MACS : SecondEnableEnds(m) =>
        /\ lastEnable'[CurDev(m)] = "failed"
        /\ ConnEnded(pc'[m])]_vars

\* ServicesResolved=true was observed with the devices enabled: the enable
\* of the first device failed, the connection task has ended and the
\* session is stopped.
C20_Witness ==
    /\ Connect /\ ~is_active
    /\ \E m \in MACS :
        /\ pc[m] = "failed" /\ lastEnable[DevSeq(m)[1]] = "failed"
        /\ \A d \in DevsOf(m) : enabled[d]


\* A disable call of a device of m raises: the step leaves disable_devices
\* with the connection task ended.  (After the last disable of a pass that
\* handles a cancellation, restart_devices re-raises once CM_STOP is set:
\* that end is not counted.)
DisableRaises(m) ==
    /\ pc[m] = "disable" /\ ConnEnded(pc'[m])
    /\ ~(hctx[m] = "cancel" /\ cm_stop /\ idx[m] = LastDev(m))

\* C21: disable(device) never raises, whatever the device and the state of
\* the bus, so disable_devices(mac) runs disable for every device of the MAC
\* and the connection task survives a failure inside disable.
C21_DisableNeverRaises ==
    [][Connect => \A m \in MACS : ~DisableRaises(m)]_vars

\* The part of C21 that holds: a cancellation that arrives inside disable
\* while the session is active is logged by disarm, and the loop goes on
\* to the next device.
C21_CancelLoggedWhileActive ==
    [][Connect => \A m \in MACS :
        (pc[m] = "disable" /\ ccancel[m] # NoCancel /\ is_active
         /\ idx[m] < LastDev(m)) => pc'[m] = "disable"]_vars

\* disable of the first device raised with no cancellation requested: the
\* connection task has failed before the disable of the second device,
\* which is still enabled.
C21_Witness ==
    /\ Connect
    /\ \E m \in MACS :
        /\ pc[m] = "failed" /\ ~connected[m] /\ teardown[m] # <<>>
        /\ \A d \in DevsOf(m) : lastEnable[d] = "ok" /\ enabled[d]

\* The task of reader r is a task of a device with address m.
TaskOfMac(r, m) == \E d \in DEVICES : MacOf(d) = m /\ r \in device_task[d]

Pending(t) == t.st \in {"new", "wait", "woken"}

\* C22: Session.disconnect_devices(mac) cancels, with the cause "Connection
\* error", exactly the in-flight device tasks of the devices whose MAC is
\* mac; tasks of devices with another MAC, the connection tasks, the active
\* flag and the connected events are left unchanged.
C22_DisconnectFrame ==
    [][\A m \in ADDRS : DisconnectDevices(m) =>
        /\ \A r \in READERS :
            IF TaskOfMac(r, m) /\ Pending(task[r])
            THEN /\ task'[r].cmsg # NoCancel
                 /\ task[r].cmsg = NoCancel => task'[r].cmsg = CONNECTION_ERROR
                 /\ task'[r].st = task[r].st
            ELSE task'[r] = task[r]
        /\ UNCHANGED <<pc, ccancel, is_active, connected, device_task, cm_stop>>]_vars

\* A task in flight with the cancellation of disconnect_devices requested,
\* in a session that is active with its connection task running.
C22_Witness ==
    /\ is_active
    /\ \A m \in MACS : ~ConnEnded(pc[m]) /\ ccancel[m] = NoCancel
    /\ \E r \in READERS :
        /\ \E m \in MACS : TaskOfMac(r, m)
        /\ Pending(task[r]) /\ task[r].cmsg = CONNECTION_ERROR

\* The task of reader r is registered for device d and for no other.
MemberOf(r, d) == \A e \in DEVICES : (r \in device_task[e]) <=> (e = d)

\* The task of reader r comes into being in this step.
Created(r) == task'[r].st = "new" /\ task[r].st # "new"

\* C23: every task created through the session for a device is a member of
\* device_task[device] from its creation until it completes, fails or is
\* cancelled, and is removed after that; hence a session stop or a device
\* disconnect reaches every reader task still in flight, and tasks are
\* created only while the session is active.
C23_ManagedTasks ==
    /\ [](\A r \in READERS :
            IF Pending(task[r])
            THEN rpc[r] \in {"gate", "io"} /\ MemberOf(r, rdev[r])
            ELSE \A d \in DEVICES : r \notin device_task[d])
    /\ [][/\ \A r \in READERS : Created(r) =>
                /\ is_active
                /\ \A e \in DEVICES : (r \in device_task'[e]) <=> (e = rdev'[r])
          /\ (Stop \/ \E m \in MACS : DisconnectDevices(m)) =>
                \A r \in READERS : Pending(task[r]) => task'[r].cmsg # NoCancel]_vars

\* Two managed tasks of one read() call have come and gone: the task that
\* waited for the event is done and discarded, the I/O task is in flight.
C23_Witness ==
    \E r \in READERS :
        /\ rpc[r] = "io" /\ task[r].st = "wait" /\ task[r].cmsg = NoCancel
        /\ MemberOf(r, rdev[r]) /\ rdev[r] = "d2"

\* ================================================================
\* Serial transport (serial.py): one serial device inside a session that is
\* active.  The enable and disable calls are those of the connection task;
\* read and write are calls of the application, let through by connected()
\* once enable has returned.  The remote numbers the bytes it sends after an
\* enable 1, 2, 3, ... and sends a fragment only while it holds an RX credit.
\* The queues of the subscriptions are those of _btzen.PropertyNotification,
\* which is not part of the sources: get() takes the oldest value notified
\* and not yet taken, size() is the number of such values.
\* ================================================================

UUID_TX_UART == "TX_UART"

UUID_TX_CREDIT == "TX_CREDIT"

Min(a, b) == IF a < b THEN a ELSE b

\* credits_for: min(255, ceil(n / 20)).
credits_for(n) == Min(255, (n + 19) \div 20)

\* credits_for without the cap of one byte.
credits_uncapped(n) == (n + 19) \div 20

\* The default of _add_rx_credits.
DEFAULT_CREDITS == 32

\* Bytes lo..hi of the remote's stream.
Bytes(lo, hi) == [i \in 1..(hi - lo + 1) |-> lo + i - 1]

\* data[n:] and data[:n].
From(data, n) == SubSeq(data, n + 1, Len(data))

UpTo(data, n) == SubSeq(data, 1, n)

coreIdle == UNCHANGED <<coreVars, notifVars, extraVars>>

\* The remote sends a fragment of k bytes on TX_UART.
FragArrive(k) ==
    /\ UUID_TX_UART \in subs
    /\ rcred >= 1 /\ budget.frag > 0
    /\ budget' = [budget EXCEPT !.frag = @ - 1]
    /\ uart_q' = Append(uart_q, Bytes(sent + 1, sent + k))
    /\ sent' = sent + k
    /\ delivered' = delivered + 1
    /\ rcred' = rcred - 1
    /\ UNCHANGED <<buffer, rx_credits, subs, txc_q, epc, sconn, rd, wr, granted, frags,
                   got, elog, wlog, rx_uart, clean>>
    /\ coreIdle

\* The remote notifies a value of TX_CREDIT.
TxCreditArrive ==
    /\ UUID_TX_CREDIT \in subs
    /\ txc_q < MaxTxc
    /\ txc_q' = txc_q + 1
    /\ UNCHANGED <<buffer, rx_credits, subs, uart_q, epc, sconn, rd, wr, granted, frags,
                   rcred, delivered, sent, got, elog, wlog, rx_uart, clean, budget>>
    /\ coreIdle

\* _enable_serial up to its first suspension.  The state of the device is
\* reset first.  Bus._gatt_start then subscribes TX_CREDIT and TX_UART:
\* Notifications.start asserts that the path has no subscription, so the
\* call raises when the device was not disabled since its last enable; ok
\* says whether bt_notify_start of the first characteristic returns.  With
\* both subscribed _add_rx_credits awaits the write of 0x20 to RX_CREDIT.
\* An exception of enable ends the connection task, and with it the session
\* stops: no enable or disable follows, connected() lets no call through
\* any more, and the calls in flight are cancelled.
EnableSerial(ok) ==
    /\ epc = "idle" /\ budget.enable > 0
    /\ budget' = [budget EXCEPT !.enable = @ - 1]
    /\ buffer' = <<>>
    /\ rx_credits' = 0
    /\ granted' = 0 /\ frags' = 0 /\ got' = <<>>
    /\ clean' = (clean /\ rd.pc = "idle" /\ wr.pc = "idle" /\ subs = {})
    /\ IF subs # {} \/ ~ok
       THEN /\ elog' = <<"reset", "raise">>
            /\ epc' = "failed"
            /\ UNCHANGED <<subs, uart_q, txc_q, rcred, delivered, sent>>
       ELSE /\ subs' = {UUID_TX_CREDIT, UUID_TX_UART}
            /\ uart_q' = <<>> /\ txc_q' = 0
            /\ rcred' = 0 /\ delivered' = 0 /\ sent' = 0
            /\ epc' = "grant"
            /\ elog' = <<"reset", "start TX_CREDIT", "start TX_UART">>
    /\ UNCHANGED <<sconn, rd, wr, wlog, rx_uart>>
    /\ coreIdle

\* _enable_serial: the write of the credits returned; rx_credits is
\* increased and _tx_credit awaits the next value of TX_CREDIT.
EnableGranted ==
    /\ epc = "grant"
    /\ rx_credits' = rx_credits + DEFAULT_CREDITS
    /\ granted' = granted + DEFAULT_CREDITS
    /\ rcred' = rcred + DEFAULT_CREDITS
    /\ elog' = Append(elog, "grant")
    /\ epc' = "txc"
    /\ UNCHANGED <<buffer, subs, uart_q, txc_q, sconn, rd, wr, frags, delivered, sent, got,
                   wlog, rx_uart, clean, budget>>
    /\ coreIdle

\* _enable_serial: a value of TX_CREDIT is taken and enable returns; the
\* connection task sets the event of the MAC and connected() lets the
\* calls of the application through.
EnableReturns ==
    /\ epc = "txc" /\ txc_q > 0
    /\ txc_q' = txc_q - 1
    /\ elog' = elog \o <<"txcredit", "return">>
    /\ epc' = "idle"
    /\ sconn' = TRUE
    /\ UNCHANGED <<buffer, rx_credits, subs, uart_q, rd, wr, granted, frags, rcred, delivered,
                   sent, got, wlog, rx_uart, clean, budget>>
    /\ coreIdle

\* A call in flight whose subscription is stopped or whose device is gone.
Lose(c) == IF c.pc = "idle" THEN c ELSE [c EXCEPT !.lost = TRUE]

\* disable_devices and _disable_serial after ServicesResolved=false: the
\* event is cleared and both subscriptions are stopped, with what they
\* hold.  The remote is disconnected.
DisableSerial ==
    /\ epc = "idle" /\ sconn
    /\ sconn' = FALSE
    /\ subs' = {}
    /\ uart_q' = <<>> /\ txc_q' = 0
    /\ rcred' = 0
    /\ rd' = Lose(rd)
    /\ wr' = Lose(wr)
    /\ UNCHANGED <<buffer, rx_credits, epc, granted, frags, delivered, sent, got, elog, wlog,
                   rx_uart, clean, budget>>
    /\ coreIdle

\* The loop of _read_data with data collected and rx_credits at credits:
\* with n bytes the surplus goes to the buffer and data[:n] is returned;
\* else _rx_credits_mgr grants credits when the count is below 1 and the
\* next fragment is awaited.
ReadOn(n, data, credits) ==
    IF Len(data) >= n
    THEN /\ buffer' = From(data, n)
         /\ got' = got \o UpTo(data, n)
         /\ rd' = NoRead
    ELSE /\ rd' = [pc |-> IF credits < 1 THEN "grant" ELSE "frag",
                   n |-> n, data |-> data, lost |-> FALSE]
         /\ UNCHANGED <<buffer, got>>

\* read(device, n) up to its first suspension: connected() has let the call
\* through, _read_data copies the buffer and enters its loop.
ReadSerial(n) ==
    /\ rd.pc = "idle" /\ sconn /\ epc # "failed"
    /\ ReadOn(n, buffer, rx_credits)
    /\ UNCHANGED <<rx_credits, subs, uart_q, txc_q, epc, sconn, wr, granted, frags, rcred,
                   delivered, sent, elog, wlog, rx_uart, clean, budget>>
    /\ coreIdle

\* The credits _rx_credits_mgr grants for the bytes still missing.
ReadGrant == credits_for(rd.n - Len(rd.data))

\* _add_rx_credits of _rx_credits_mgr: the write to RX_CREDIT returned; the
\* context manager yields and the fragment is awaited.
ReadGranted ==
    /\ rd.pc = "grant" /\ ~rd.lost
    /\ rx_credits' = rx_credits + ReadGrant
    /\ granted' = granted + ReadGrant
    /\ rcred' = rcred + ReadGrant
    /\ rd' = [rd EXCEPT !.pc = "frag"]
    /\ UNCHANGED <<buffer, subs, uart_q, txc_q, epc, sconn, wr, frags, delivered, sent, got,
                   elog, wlog, rx_uart, clean, budget>>
    /\ coreIdle

\* The write to RX_CREDIT fails, the device being gone: the exception
\* leaves _rx_credits_mgr before its try block and ends the read.
ReadGrantFails ==
    /\ rd.pc = "grant" /\ rd.lost
    /\ rd' = NoRead
    /\ UNCHANGED <<buffer, rx_credits, subs, uart_q, txc_q, epc, sconn, wr, granted, frags,
                   rcred, delivered, sent, got, elog, wlog, rx_uart, clean, budget>>
    /\ coreIdle

\* Bus._gatt_get returned the next fragment: it is appended to data, the
\* finally block of _rx_credits_mgr takes one credit, and the loop goes on.
ReadFrag ==
    /\ rd.pc = "frag" /\ ~rd.lost /\ uart_q # <<>>
    /\ uart_q' = Tail(uart_q)
    /\ frags' = frags + 1
    /\ rx_credits' = rx_credits - 1
    /\ ReadOn(rd.n, rd.data \o Head(uart_q), rx_credits - 1)
    /\ UNCHANGED <<subs, txc_q, epc, sconn, wr, granted, rcred, delivered, sent, elog, wlog,
                   rx_uart, clean, budget>>
    /\ coreIdle

\* The task of the read is cancelled while it is suspended, by its owner
\* or by the stop of the session.  Awaiting the
\* fragment it is inside the try block of _rx_credits_mgr, whose finally
\* block takes one credit; awaiting the write of the credits it is not, and
\* the write has reached the remote or has not.
CancelRead(reached) ==
    /\ rd.pc \in {"grant", "frag"}
    /\ budget.cancel > 0 \/ epc = "failed"
    /\ budget' = [budget EXCEPT !.cancel = IF epc = "failed" THEN @ ELSE @ - 1]
    /\ clean' = FALSE
    /\ rd' = NoRead
    /\ IF rd.pc = "frag"
       THEN /\ rx_credits' = rx_credits - 1
            /\ UNCHANGED <<granted, rcred>>
       ELSE /\ IF reached /\ ~rd.lost
               THEN granted' = granted + ReadGrant /\ rcred' = rcred + ReadGrant
               ELSE UNCHANGED <<granted, rcred>>
            /\ UNCHANGED rx_credits
    /\ UNCHANGED <<buffer, subs, uart_q, txc_q, epc, sconn, wr, frags, delivered, sent, got,
                   elog, wlog, rx_uart>>
    /\ coreIdle

\* _write_serial after the credits: with a value of TX_CREDIT waiting
\* (_tx_credit_size > 0) it is taken first, else the data is written to
\* RX_UART at once.
WriteOn(w, log) ==
    IF txc_q > 0
    THEN /\ wr' = [w EXCEPT !.pc = "txc"]
         /\ wlog' = log
         /\ UNCHANGED rx_uart
    ELSE /\ wr' = [w EXCEPT !.pc = "write"]
         /\ wlog' = Append(log, "write")
         /\ rx_uart' = rx_uart + 1

\* write(device, data) with no check of the length.
WriteUnchecked(len) ==
    /\ wr.pc = "idle" /\ budget.write > 0
    /\ budget' = [budget EXCEPT !.write = @ - 1]
    /\ sconn /\ epc # "failed"
    /\ IF rx_credits < 1
       THEN /\ wr' = [pc |-> "grant", len |-> len, took |-> FALSE, lost |-> FALSE]
            /\ wlog' = <<>>
            /\ UNCHANGED rx_uart
       ELSE WriteOn([NoWrite EXCEPT !.len = len], <<>>)
    /\ UNCHANGED <<buffer, rx_credits, subs, uart_q, txc_q, epc, sconn, rd, granted, frags,
                   rcred, delivered, sent, got, elog, clean>>
    /\ coreIdle

\* write(device, data) with len(data) = len, up to its first suspension.
\* The assertion on the length comes first, before connected().
WriteSerial(len) ==
    /\ wr.pc = "idle" /\ budget.write > 0
    /\ budget' = [budget EXCEPT !.write = @ - 1]
    /\ IF len > 20
       THEN /\ wlog' = <<"rejected">>
            /\ UNCHANGED <<wr, rx_uart>>
       ELSE /\ sconn /\ epc # "failed"
            /\ IF rx_credits < 1
               THEN /\ wr' = [pc |-> "grant", len |-> len, took |-> FALSE, lost |-> FALSE]
                    /\ wlog' = <<>>
                    /\ UNCHANGED rx_uart
               ELSE WriteOn([NoWrite EXCEPT !.len = len], <<>>)
    /\ UNCHANGED <<buffer, rx_credits, subs, uart_q, txc_q, epc, sconn, rd, granted, frags,
                   rcred, delivered, sent, got, elog, clean>>
    /\ coreIdle

\* _add_rx_credits of _write_serial: the write to RX_CREDIT returned.
WriteGranted ==
    /\ wr.pc = "grant" /\ ~wr.lost
    /\ rx_credits' = rx_credits + DEFAULT_CREDITS
    /\ granted' = granted + DEFAULT_CREDITS
    /\ rcred' = rcred + DEFAULT_CREDITS
    /\ WriteOn(wr, Append(wlog, "grant"))
    /\ UNCHANGED <<buffer, subs, uart_q, txc_q, epc, sconn, rd, frags, delivered, sent, got,
                   elog, clean, budget>>
    /\ coreIdle

\* _tx_credit of _write_serial: the value of TX_CREDIT is taken, then the
\* data is written to RX_UART.
WriteTxCredit ==
    /\ wr.pc = "txc" /\ ~wr.lost /\ txc_q > 0
    /\ txc_q' = txc_q - 1
    /\ wr' = [wr EXCEPT !.pc = "write", !.took = TRUE]
    /\ wlog' = wlog \o <<"txcredit", "write">>
    /\ rx_uart' = rx_uart + 1
    /\ UNCHANGED <<buffer, rx_credits, subs, uart_q, epc, sconn, rd, granted, frags, rcred,
                   delivered, sent, got, elog, clean, budget>>
    /\ coreIdle

\* The write call ends: the write to RX_UART returned, or a write failed
\* with the device gone.
WriteEnds ==
    /\ \/ wr.pc = "write"
       \/ wr.pc \in {"grant", "txc"} /\ wr.lost
    /\ wr' = NoWrite
    /\ UNCHANGED <<buffer, rx_credits, subs, uart_q, txc_q, epc, sconn, rd, granted, frags,
                   rcred, delivered, sent, got, elog, wlog, rx_uart, clean, budget>>
    /\ coreIdle

SerialNext ==
    \/ \E k \in FragSizes : FragArrive(k)
    \/ TxCreditArrive
    \/ \E ok \in BOOLEAN : EnableSerial(ok)
    \/ EnableGranted
    \/ EnableReturns
    \/ DisableSerial
    \/ \E n \in ReadSizes : ReadSerial(n)
    \/ ReadGranted
    \/ ReadGrantFails
    \/ ReadFrag
    \/ \E reached \in BOOLEAN : CancelRead(reached)
    \/ \E len \in WriteSizes : WriteSerial(len)
    \/ WriteGranted
    \/ WriteTxCredit
    \/ WriteEnds

\* Numbers of one-byte fragments read since the enable in the states the
\* transport starts from: the credits of the enable are nearly or wholly
\* used.
Consumed == {DEFAULT_CREDITS - 1, DEFAULT_CREDITS}

\* The device after enable has returned and read(1) has completed j times
\* on j fragments of one byte.
SerialUsed(j) ==
    /\ buffer = <<>>
    /\ rx_credits = DEFAULT_CREDITS - j
    /\ subs = {UUID_TX_CREDIT, UUID_TX_UART}
    /\ uart_q = <<>>
    /\ txc_q = 0
    /\ epc = "idle"
    /\ sconn = TRUE
    /\ rd = NoRead
    /\ wr = NoWrite
    /\ granted = DEFAULT_CREDITS
    /\ frags = j
    /\ rcred = DEFAULT_CREDITS - j
    /\ delivered = j
    /\ sent = j
    /\ got = Bytes(1, j)
    /\ elog = <<"reset", "start TX_CREDIT", "start TX_UART", "grant", "txcredit", "return">>
    /\ wlog = <<>>
    /\ rx_uart = 0
    /\ clean = TRUE
    /\ budget = [enable |-> MaxEnables - 1, write |-> MaxWrites, cancel |-> MaxCancels,
                 frag |-> MaxFrags]

\* The serial device in a session started by connect(): never enabled, or
\* enabled with part of its credits used.
SerialInit ==
    /\ CoreInit /\ impl = "connect" /\ NotifIdle /\ ExtraIdle
    /\ SerialIdle \/ \E j \in Consumed : SerialUsed(j)

SerialSpec == SerialInit /\ [][SerialNext]_vars

\* ------------------------------------------------ claims, serial transport

\* C24: in every reachable state of the serial transport, under any
\* interleaving of enable, read, write, fragment arrival and cancellation of
\* a pending read, the local rx_credits equals the credits granted since the
\* last enable minus the fragments received since then, and it is never
\* negative.
C24_CreditInvariant ==
    /\ rx_credits = granted - frags
    /\ rx_credits >= 0

\* The part of C24 that holds: as long as no read was cancelled and every
\* enable found the device disabled and no call in flight.
C24_CleanRuns == clean => C24_CreditInvariant

\* After one enable a read that awaited a fragment was cancelled: the
\* finally block of _rx_credits_mgr took a credit for a fragment that never
\* came.
C24_Witness ==
    /\ budget.enable = MaxEnables - 1 /\ budget.cancel < MaxCancels
    /\ rd.pc = "idle" /\ epc = "idle" /\ sconn
    /\ frags = 0 /\ granted = DEFAULT_CREDITS
    /\ rx_credits = DEFAULT_CREDITS - 1

\* No read was cancelled and the count is negative: enable was called on
\* the enabled device while a read awaited a fragment, which then came.
C24_NegativeCredits ==
    /\ budget.cancel = MaxCancels
    /\ rx_credits < 0

\* The bytes returned by read since the last enable are the first bytes the
\* remote sent, in order.
StreamPrefix == \A i \in 1..Len(got) : got[i] = i

\* A read call for n bytes returns in this step.
ReadReturns(n) ==
    /\ rd'.pc = "idle" /\ Len(got') > Len(got)
    /\ \/ rd.pc = "idle" /\ ReadSerial(n)
       \/ rd.pc = "frag" /\ rd.n = n /\ ReadFrag

\* The bytes read that read has not returned are the buffer, which the next
\* call returns first.
SurplusKept ==
    rd.pc = "idle" =>
        \A i \in 1..Len(buffer) : buffer[i] = Len(got) + i

\* C25: every completed serial read(n) returns exactly n bytes, and over
\* any sequence of completed read calls between two enables the
\* concatenation of the returned bytes is a prefix of the concatenation of
\* the TX_UART fragments in arrival order: no byte is lost, duplicated or
\* reordered, and bytes received beyond n stay in the buffer and are
\* returned first by the next read.
C25_ReadStream ==
    /\ [](StreamPrefix /\ SurplusKept)
    /\ [][\A n \in ReadSizes : ReadReturns(n) => Len(got') = Len(got) + n]_vars

\* The part of C25 that holds: with no read cancelled and every enable on
\* the disabled device with no call in flight.
C25_CleanStream ==
    /\ [](clean => (StreamPrefix /\ SurplusKept))
    /\ [][\A n \in ReadSizes : ReadReturns(n) => Len(got') = Len(got) + n]_vars

\* After one enable a read was cancelled with a fragment taken, and the
\* reads completed since have skipped its bytes.
C25_Witness ==
    /\ budget.enable = MaxEnables - 1 /\ budget.cancel < MaxCancels
    /\ rd.pc = "idle"
    /\ \E i \in 1..Len(got) : got[i] # i

\* A step in which read finds the count depleted and starts the write of
\* the credits.
ReadDecidesGrant == rd'.pc = "grant" /\ rd.pc # "grant"

\* A step in which the write of the credits of read returns.
ReadGrants == rd.pc = "grant" /\ rd'.pc = "frag"

\* A step in which read starts to await a fragment.
AwaitsFragment == rd'.pc = "frag" /\ (rd.pc # "frag" \/ ReadFrag)

\* What read does with the credits, step by step.
ReadCreditSteps ==
    /\ ReadDecidesGrant => rx_credits' < 1
    /\ ReadGrants =>
        /\ granted' - granted = Min(255, credits_uncapped(rd.n - Len(rd.data)))
        /\ granted' - granted \in 1..255
        /\ rx_credits' = rx_credits + (granted' - granted)
    /\ ReadFrag => rx_credits' = rx_credits - 1

\* C26: within serial read(n), RX credits are granted to the remote only
\* when the local count is depleted (below 1) and before the next fragment
\* is awaited; the amount is min(255, ceil(remaining / 20)), remaining being
\* the number of bytes still missing, so every grant is within 1..255 and
\* the local count within 0..255; the count decreases by exactly one per
\* fragment received.
C26_ReadCredits ==
    /\ [](rx_credits \in 0..255)
    /\ [][ReadCreditSteps /\ (AwaitsFragment => rx_credits' >= 1)]_vars

\* The part of C26 that holds: the steps of read, and the range of the
\* count as long as no write was called, no read was cancelled and every
\* enable found the device disabled.
C26_ReadAlone ==
    /\ []((clean /\ budget.write = MaxWrites) => rx_credits \in 0..255)
    /\ [][ReadCreditSteps /\ (clean' /\ AwaitsFragment => rx_credits' >= 1)]_vars

\* No read was cancelled and every enable found the device disabled: the
\* count was depleted, read and write each found it so and each granted
\* credits, 255 and 32.
C26_Witness ==
    /\ clean /\ rx_credits > 255
    /\ rd.pc = "frag" /\ rd.n - Len(rd.data) > 20 * 255

\* A step of the write call in which the data is written to RX_UART.
WritesData == rx_uart' = rx_uart + 1

\* The order of what a write call has done: at most one grant, at most one
\* TX credit taken, the write last.
WriteOrder ==
    wlog \in {<<>>, <<"rejected">>, <<"grant">>, <<"write">>, <<"grant", "write">>,
              <<"txcredit", "write">>, <<"grant", "txcredit", "write">>}

\* C27: serial write(data) with at most 20 bytes performs, in order: a
\* grant of RX credits if the local RX credits are depleted; if no TX credit
\* is queued, a wait until one TX credit arrives; then the write of data to
\* RX_UART.  Data is never written to RX_UART while no TX credit is
\* available.
C27_WriteOrder ==
    /\ [](WriteOrder)
    /\ [][/\ (wr.pc = "idle" /\ wr'.pc = "grant") => rx_credits < 1
          /\ (wr.pc = "idle" /\ wr'.pc \in {"txc", "write"}) => rx_credits >= 1
          /\ WritesData => (txc_q > 0 \/ wr'.took)]_vars

\* The part of C27 that holds: the grant comes first and only with the
\* count depleted, a TX credit that is queued is taken, and the write to
\* RX_UART is the last step.
C27_GrantThenWrite ==
    /\ [](WriteOrder)
    /\ [][/\ (wr.pc = "idle" /\ wr'.pc = "grant") => rx_credits < 1
          /\ (wr.pc = "idle" /\ wr'.pc \in {"txc", "write"}) => rx_credits >= 1
          /\ (WritesData /\ txc_q > 0) => wr'.took]_vars

\* The data of a write call was written to RX_UART with no TX credit queued
\* and none taken by the call.
C27_Witness ==
    /\ wr.pc = "write" /\ ~wr.took /\ txc_q = 0
    /\ wlog = <<"write">> /\ rx_uart = 1

\* The serial state, the calls in flight and what the remote has received
\* are as before the step.
SerialUntouched ==
    UNCHANGED <<buffer, rx_credits, granted, rcred, rx_uart, subs, uart_q, txc_q, rd, wr,
                frags, got>>

\* C28: a serial write of more than 20 bytes in one call is rejected before
\* any credit is granted or consumed and before anything is written to
\* RX_UART: the serial state (buffer, rx_credits) and the remote are
\* unchanged.
C28_LongWriteRejected ==
    [][\A len \in WriteSizes :
        (len > 20 /\ WriteSerial(len)) => (SerialUntouched /\ wlog' = <<"rejected">>)]_vars

\* A write of 21 bytes was rejected on the enabled device with its credits
\* depleted, where a write of 20 bytes would have granted credits.
C28_Witness ==
    /\ wlog = <<"rejected">> /\ wr.pc = "idle"
    /\ sconn /\ epc = "idle" /\ rx_credits < 1 /\ rx_uart = 0
    /\ granted = DEFAULT_CREDITS

\* What _enable_serial does, in order.
EnableSteps == <<"reset", "start TX_CREDIT", "start TX_UART", "grant", "txcredit", "return">>

\* The enable call has done a first part of EnableSteps, or has raised
\* after the reset.
EnableInOrder ==
    \/ elog = <<"reset", "raise">>
    \/ \E k \in 0..Len(EnableSteps) : elog = SubSeq(EnableSteps, 1, k)

\* A step in which an enable call starts.
EnableStarts == budget'.enable < budget.enable

\* C29: enabling a serial device discards the local buffer and credit count
\* left from the previous connection, then in order starts notifications on
\* TX_CREDIT and on TX_UART, grants 0x20 RX credits, and completes only
\* after the first TX credit has been received; when enable returns, buffer
\* is empty and rx_credits is 0x20.
C29_EnableSerial ==
    /\ [](EnableInOrder)
    /\ [][/\ EnableStarts => (buffer' = <<>> /\ rx_credits' = 0)
          /\ EnableGranted => (granted' = DEFAULT_CREDITS /\ rcred' = DEFAULT_CREDITS)
          /\ EnableReturns =>
                /\ txc_q > 0 /\ subs = {UUID_TX_CREDIT, UUID_TX_UART}
                /\ buffer' = <<>> /\ rx_credits' = DEFAULT_CREDITS]_vars

\* The part of C29 that holds: the steps and their order, and the state at
\* the return when no read was cancelled during the enable.
C29_StepsInOrder ==
    /\ [](EnableInOrder)
    /\ [][/\ EnableStarts => (buffer' = <<>> /\ rx_credits' = 0)
          /\ EnableGranted => (granted' = DEFAULT_CREDITS /\ rcred' = DEFAULT_CREDITS)
          /\ EnableReturns =>
                /\ txc_q > 0 /\ subs = {UUID_TX_CREDIT, UUID_TX_UART}
                /\ buffer' = <<>>
                /\ clean => rx_credits' = DEFAULT_CREDITS]_vars

\* The enable call has returned, no fragment has arrived since, and the
\* credit count is not the 0x20 that the call granted.
C29_Witness ==
    /\ elog = EnableSteps /\ epc = "idle" /\ sconn
    /\ delivered = 0 /\ rd = NoRead /\ wr = NoWrite
    /\ buffer = <<>> /\ rx_credits = DEFAULT_CREDITS - 1

\* ------------------------------------------------- notification registry

\* Most monitors of one pair that are followed.
MaxMonitors == 2

notifOnly == UNCHANGED <<coreVars, serialVars, extraVars>>

\* Notifications.start(path, iface, name) for the pair k.  With assertions
\* enabled (dbg) a pair already in _data raises AssertionError before
\* anything changes.  With assertions compiled out the new monitor replaces
\* the entry of the pair: the old PropertyNotification loses its last
\* reference without a call of stop(), and whether that releases its
\* subscription (rel) is decided outside this code.  The name is registered
\* on the monitor the call has created.
NotifStart(k, name, dbg, rel) ==
    /\ notifOnly
    /\ IF k \in DOMAIN ndata /\ dbg
       THEN /\ nres' = "raised"
            /\ UNCHANGED <<ndata, nmon>>
       ELSE /\ nmon[k] < MaxMonitors \/ (k \in DOMAIN ndata /\ rel)
            /\ nmon' = [nmon EXCEPT ![k] = IF k \in DOMAIN ndata /\ rel THEN @ ELSE @ + 1]
            /\ ndata' = [q \in DOMAIN ndata \cup {k} |-> IF q = k THEN {name} ELSE ndata[q]]
            /\ nres' = IF k \in DOMAIN ndata THEN "replaced" ELSE "started"

\* Notifications.stop(path, iface) for the pair k: the monitor of the pair
\* is stopped and its entry deleted; without an entry nothing is done.
NotifStop(k) ==
    /\ notifOnly
    /\ IF k \in DOMAIN ndata
       THEN /\ nmon' = [nmon EXCEPT ![k] = @ - 1]
            /\ ndata' = [q \in DOMAIN ndata \ {k} |-> ndata[q]]
            /\ nres' = "stopped"
       ELSE /\ nres' = "noop"
            /\ UNCHANGED <<ndata, nmon>>

\* The interface of GATT characteristics among the interfaces followed.
INTERFACE_GATT_CHR == "i1"

\* _data after start() for the pair k with the name.
Registered(k, name) ==
    [q \in DOMAIN ndata \cup {k} |-> IF q = k THEN {name} ELSE ndata[q]]

\* _data after stop() for the pair k.
Removed(k) == [q \in DOMAIN ndata \ {k} |-> ndata[q]]

\* _gatt_start with an except branch that raises again without the call
\* of Notifications.stop.
GattStartKept(p, ok, dbg, rel) ==
    LET k == <<p, INTERFACE_GATT_CHR>>
        had == k \in DOMAIN ndata
    IN  /\ notifOnly
        /\ IF had /\ dbg
           THEN /\ nres' = "raised"
                /\ UNCHANGED <<ndata, nmon>>
           ELSE /\ nmon[k] < MaxMonitors \/ (had /\ rel)
                /\ nmon' = [nmon EXCEPT ![k] = IF had /\ rel THEN @ ELSE @ + 1]
                /\ ndata' = Registered(k, "n1")
                /\ nres' = IF ok THEN "notifying" ELSE "notify failed"

\* Bus._gatt_start(path): Notifications.start for the pair of the path and
\* the GATT interface (which raises on a subscribed pair when assertions
\* are enabled, before the try block), then bt_notify_start on the remote;
\* when that fails (~ok) Notifications.stop removes the entry the call has
\* made, and the error is raised again.
GattStart(p, ok, dbg, rel) ==
    LET k == <<p, INTERFACE_GATT_CHR>>
        had == k \in DOMAIN ndata
    IN  /\ notifOnly
        /\ IF had /\ dbg
           THEN /\ nres' = "raised"
                /\ UNCHANGED <<ndata, nmon>>
           ELSE /\ nmon[k] < MaxMonitors \/ (had /\ rel)
                /\ IF ok
                   THEN /\ nmon' = [nmon EXCEPT ![k] = IF had /\ rel THEN @ ELSE @ + 1]
                        /\ ndata' = Registered(k, "n1")
                        /\ nres' = "notifying"
                   ELSE /\ nmon' = [nmon EXCEPT ![k] = IF had /\ rel THEN @ - 1 ELSE @]
                        /\ ndata' = Removed(k)
                        /\ nres' = "notify failed"

\* Bus._gatt_stop(path): bt_notify_stop on the remote, whose failure (~ok)
\* is logged, and in the finally block Notifications.stop for the pair.
GattStop(p, ok) ==
    LET k == <<p, INTERFACE_GATT_CHR>>
    IN  /\ notifOnly
        /\ nres' = IF ok THEN "silenced" ELSE "silence failed"
        /\ IF k \in DOMAIN ndata
           THEN /\ nmon' = [nmon EXCEPT ![k] = @ - 1]
                /\ ndata' = Removed(k)
           ELSE UNCHANGED <<ndata, nmon>>

NotifNext ==
    \/ \E k \in KEYS, name \in NAMES, dbg, rel \in BOOLEAN : NotifStart(k, name, dbg, rel)
    \/ \E k \in KEYS : NotifStop(k)
    \/ \E p \in PATHS, ok, dbg, rel \in BOOLEAN : GattStart(p, ok, dbg, rel)
    \/ \E p \in PATHS, ok \in BOOLEAN : GattStop(p, ok)

NotifInit == CoreInit /\ impl = "connect" /\ SerialIdle /\ NotifIdle /\ ExtraIdle

NotifSpec == NotifInit /\ [][NotifNext]_vars

\* A call of start for the pair k.
StartOf(k) == \E name \in NAMES, dbg, rel \in BOOLEAN : NotifStart(k, name, dbg, rel)

\* C30: for every (path, interface) at most one underlying property-change
\* subscription exists at any time, and start(path, iface, name) is
\* idempotent per name: starting again on a pair that is already subscribed
\* succeeds and leaves exactly that one subscription with its existing
\* sinks; stop(path, iface) removes the subscription and all its sinks and
\* is a no-op when none exists.
C30_Subscriptions ==
    /\ [](\A k \in KEYS : nmon[k] <= 1)
    /\ [][\A k \in KEYS :
            /\ (StartOf(k) /\ k \in DOMAIN ndata) =>
                  /\ nres' # "raised"
                  /\ nmon' = nmon
                  /\ DOMAIN ndata' = DOMAIN ndata
                  /\ ndata[k] \subseteq ndata'[k]
            /\ (NotifStop(k) /\ k \in DOMAIN ndata) =>
                  (k \notin DOMAIN ndata' /\ nmon'[k] = nmon[k] - 1)
            /\ (NotifStop(k) /\ k \notin DOMAIN ndata) =>
                  UNCHANGED <<ndata, nmon>>]_vars

\* The part of C30 that holds: a start on a pair without a subscription
\* makes exactly one, with the sink of the name; a start on a subscribed
\* pair either raises and changes nothing, or replaces the entry by a new
\* monitor with the sink of the name alone; stop removes the entry and its
\* sinks, leaves the other pairs alone, and does nothing when there is no
\* entry.
C30_StartOnceStopRemoves ==
    [][\A k \in KEYS :
         /\ (StartOf(k) /\ k \notin DOMAIN ndata) =>
               /\ nres' = "started" /\ nmon'[k] = nmon[k] + 1
               /\ DOMAIN ndata' = DOMAIN ndata \cup {k}
               /\ \E name \in NAMES : ndata'[k] = {name}
         /\ (StartOf(k) /\ k \in DOMAIN ndata) =>
               \/ nres' = "raised" /\ UNCHANGED <<ndata, nmon>>
               \/ nres' = "replaced" /\ \E name \in NAMES : ndata'[k] = {name}
         /\ (NotifStop(k) /\ k \in DOMAIN ndata) =>
               /\ k \notin DOMAIN ndata' /\ nmon'[k] = nmon[k] - 1
               /\ \A q \in DOMAIN ndata' : ndata'[q] = ndata[q]
         /\ (NotifStop(k) /\ k \notin DOMAIN ndata) =>
               (nres' = "noop" /\ UNCHANGED <<ndata, nmon>>)]_vars

\* A start on a subscribed pair has raised: the pair keeps its subscription
\* and its sink.
C30_Witness ==
    /\ nres = "raised"
    /\ \E k \in DOMAIN ndata : nmon[k] = 1 /\ ndata[k] # {}

\* C31: if starting GATT notifications on the remote fails, the local
\* subscription created for that characteristic path is released before the
\* error propagates to the caller: after the failed start no subscription
\* for the path exists; likewise stopping notifications always removes the
\* local subscription, also when the remote stop-notify call fails.
C31_GattUnwind ==
    [][\A p \in PATHS :
         LET k == <<p, INTERFACE_GATT_CHR>>
         IN  /\ (nres' = "notify failed" /\ \E dbg, rel \in BOOLEAN : GattStart(p, FALSE, dbg, rel)) =>
                   /\ k \notin DOMAIN ndata'
                   /\ nmon'[k] <= nmon[k]
                   /\ \A q \in DOMAIN ndata \ {k} : q \in DOMAIN ndata' /\ ndata'[q] = ndata[q]
             /\ \A ok \in BOOLEAN : GattStop(p, ok) =>
                   /\ k \notin DOMAIN ndata'
                   /\ k \in DOMAIN ndata => nmon'[k] = nmon[k] - 1]_vars

\* The remote has refused a start of notifications, or failed on the stop,
\* for a path: the path has no entry left, while the other path keeps its
\* entry.
C31_Witness ==
    /\ nres \in {"notify failed", "silence failed"}
    /\ \E p \in PATHS :
          /\ <<p, INTERFACE_GATT_CHR>> \notin DOMAIN ndata
          /\ nmon[<<p, INTERFACE_GATT_CHR>>] = 0
          /\ \E q \in PATHS \ {p} : <<q, INTERFACE_GATT_CHR>> \in DOMAIN ndata

\* ------------------------------------------------ characteristic paths

\* config.py: the number of lookups ensure_characteristic_path makes.
DEFAULT_CHARACTERISTIC_PATH_RETRY == 5

pathOnly == UNCHANGED <<coreVars, serialVars, notifVars, thingyVars, devVars, tagVars, dispVars>>

\* characteristic_path without the cache: the bus is asked on every call.
characteristic_path_uncached(k, v) ==
    /\ pathOnly
    /\ cres' = [op |-> "path", key |-> k,
                out |-> IF v = NoPath THEN "BTZenError" ELSE v,
                looked |-> TRUE]
    /\ characteristic_cache' =
          IF v = NoPath THEN characteristic_cache
          ELSE [characteristic_cache EXCEPT ![k] = v]
    /\ UNCHANGED ens

\* Bus.characteristic_path(mac, uuid) for the key k; v is what
\* bt_characteristic answers if it is asked.  A cached path is returned
\* without a lookup; a lookup that finds nothing raises BTZenError; a found
\* path is stored and returned.
characteristic_path(k, v) ==
    LET cached == characteristic_cache[k]
        path == IF cached = NoPath THEN v ELSE cached
    IN  /\ pathOnly
        /\ cres' = [op |-> "path", key |-> k,
                    out |-> IF path = NoPath THEN "BTZenError" ELSE path,
                    looked |-> cached = NoPath]
        /\ characteristic_cache' =
              IF path = NoPath THEN characteristic_cache
              ELSE [characteristic_cache EXCEPT ![k] = path]
        /\ UNCHANGED ens

\* Bus.ensure_characteristic_path(mac, uuid) is called for the key k.
EnsureStart(k) ==
    /\ pathOnly
    /\ ens = NoEnsure
    /\ ens' = [key |-> k, i |-> 0]
    /\ UNCHANGED <<characteristic_cache, cres>>

\* One pass of its loop: the bus is asked, whatever the cache holds; a
\* found path is stored and the call returns; else the call sleeps a second
\* and tries again.
EnsureTry(v) ==
    /\ pathOnly
    /\ ens # NoEnsure /\ ens.i < DEFAULT_CHARACTERISTIC_PATH_RETRY
    /\ IF v = NoPath
       THEN /\ ens' = [ens EXCEPT !.i = @ + 1]
            /\ UNCHANGED <<characteristic_cache, cres>>
       ELSE /\ characteristic_cache' = [characteristic_cache EXCEPT ![ens.key] = v]
            /\ cres' = [op |-> "ensure", key |-> ens.key, out |-> v, looked |-> TRUE]
            /\ ens' = NoEnsure

\* The loop has ended without a path: BTZenError.
EnsureRaises ==
    /\ pathOnly
    /\ ens # NoEnsure /\ ens.i = DEFAULT_CHARACTERISTIC_PATH_RETRY
    /\ cres' = [op |-> "ensure", key |-> ens.key, out |-> "BTZenError", looked |-> TRUE]
    /\ ens' = NoEnsure
    /\ UNCHANGED characteristic_cache

PathNext ==
    \/ \E k \in CKEYS, v \in CPATHS \cup {NoPath} : characteristic_path(k, v)
    \/ \E k \in CKEYS : EnsureStart(k)
    \/ \E v \in CPATHS \cup {NoPath} : EnsureTry(v)
    \/ EnsureRaises

PathInit == CoreInit /\ impl = "connect" /\ SerialIdle /\ NotifIdle /\ ExtraIdle

PathSpec == PathInit /\ [][PathNext]_vars

\* A call of characteristic_path for the key k.
PathCall(k) == \E v \in CPATHS \cup {NoPath} : characteristic_path(k, v)

\* C32: once characteristic_path(mac, uuid) or
\* ensure_characteristic_path(mac, uuid) has resolved a path, every later
\* characteristic_path call for the same (mac, uuid) returns the cached
\* path without a bus lookup; a lookup that finds nothing raises a
\* not-found error and stores nothing, and entries of other (mac, uuid)
\* keys are never changed by a call.
C32_PathCache ==
    [][/\ \A k \in CKEYS :
            /\ (PathCall(k) /\ characteristic_cache[k] # NoPath) =>
                  /\ cres'.out = characteristic_cache[k] /\ ~cres'.looked
                  /\ characteristic_cache' = characteristic_cache
            /\ (PathCall(k) /\ characteristic_cache[k] = NoPath) => cres'.looked
            /\ characteristic_cache[k] # NoPath => characteristic_cache'[k] # NoPath
            /\ characteristic_cache'[k] # characteristic_cache[k] =>
                  /\ cres' # cres /\ cres'.key = k /\ cres'.out = characteristic_cache'[k]
                  /\ \A q \in CKEYS \ {k} : characteristic_cache'[q] = characteristic_cache[q]
       /\ (cres' # cres /\ cres'.out = "BTZenError") =>
             (cres'.looked /\ characteristic_cache' = characteristic_cache)]_vars

\* characteristic_path has answered from the cache for a key that
\* ensure_characteristic_path or an earlier call resolved, while the other
\* key has a different path or none.
C32_Witness ==
    /\ cres.op = "path" /\ ~cres.looked /\ cres.out \in CPATHS
    /\ characteristic_cache[cres.key] = cres.out
    /\ \E q \in CKEYS \ {cres.key} : characteristic_cache[q] # cres.out

\* ------------------------------------------------------------ thingy52

thingyOnly ==
    UNCHANGED <<coreVars, serialVars, notifVars, pathVars, devVars, tagVars, dispVars>>

\* Operands of set_trigger, in tenths of a millisecond: half a
\* millisecond, 2.5 s, and 65.536 s, which does not fit 16 bits of
\* milliseconds.
OPERANDS == {5, 25000, 655360}

\* to_ms of _enable_thingy52: int(v * 1000).
to_ms(v) == v \div 10

\* struct '<H' and 'B' of a value.
LE16(x) == <<x % 256, x \div 256>>
U8(x) == <<x>>

\* CONFIG_DATA_FMT.pack ('<HHHHBBBB'); a value out of the range of its
\* field is struct.error.
CONFIG_DATA_FMT_pack(t, p, h, c, gas, r, g, b) ==
    IF /\ \A x \in {t, p, h, c} : x \in 0..65535
       /\ \A x \in {gas, r, g, b} : x \in 0..255
    THEN LE16(t) \o LE16(p) \o LE16(h) \o LE16(c) \o U8(gas) \o U8(r) \o U8(g) \o U8(b)
    ELSE <<"struct.error">>

\* The blob _enable_thingy52 builds of a configuration.
ConfigData(config) ==
    CONFIG_DATA_FMT_pack(to_ms(config.temperature), to_ms(config.pressure),
                         to_ms(config.humidity), to_ms(config.color),
                         config.gas, config.r, config.g, config.b)

\* dataclasses.replace of one entry, kept in a fresh configuration holding
\* that entry alone.
SetFresh(m, entry, operand) ==
    /\ thingyOnly
    /\ thbudget > 0 /\ thbudget' = thbudget - 1
    /\ CONFIG_CACHE' = [CONFIG_CACHE EXCEPT ![m] = [Thingy52Config EXCEPT ![entry] = operand]]
    /\ thlast' = [thlast EXCEPT ![m][entry] = operand]
    /\ UNCHANGED thwritten

\* _set_trigger_thingy52 for a sensor of the address m whose service has
\* the config_entry: the cached configuration of the address with that
\* entry replaced by the operand is put in the cache.
SetTriggerThingy52(m, entry, operand) ==
    /\ thingyOnly
    /\ thbudget > 0 /\ thbudget' = thbudget - 1
    /\ CONFIG_CACHE' = [CONFIG_CACHE EXCEPT ![m][entry] = operand]
    /\ thlast' = [thlast EXCEPT ![m][entry] = operand]
    /\ UNCHANGED thwritten

\* _enable_thingy52 for a sensor of the address m: the configuration is
\* packed and written to the configuration characteristic; struct.error
\* ends the call before the write.
EnableThingy52(m) ==
    /\ thingyOnly
    /\ LET data == ConfigData(CONFIG_CACHE[m])
       IN  thwritten' = IF data = <<"struct.error">>
                        THEN [mac |-> m, data |-> <<>>]
                        ELSE [mac |-> m, data |-> data]
    /\ UNCHANGED <<CONFIG_CACHE, thlast, thbudget>>

ThingyNext ==
    \/ \E m \in TMACS, entry \in ENTRIES, operand \in OPERANDS :
          SetTriggerThingy52(m, entry, operand)
    \/ \E m \in TMACS : EnableThingy52(m)

ThingyInit == CoreInit /\ impl = "connect" /\ SerialIdle /\ NotifIdle /\ ExtraIdle

ThingySpec == ThingyInit /\ [][ThingyNext]_vars

\* The value last written for an entry of an address, the default when
\* none was.
LastOf(m, e) == IF thlast[m][e] = Unset THEN SECOND ELSE thlast[m][e]

\* The blob of the values last written for the address.
Expected(m) ==
    CONFIG_DATA_FMT_pack(to_ms(LastOf(m, "temperature")), to_ms(LastOf(m, "pressure")),
                         to_ms(LastOf(m, "humidity")), to_ms(LastOf(m, "color")),
                         1, 0, 255, 0)

\* C33: for any sequence of set_trigger calls on the sensors of Thingy-like
\* devices, the config blob written on enable of a device with a given MAC
\* equals CONFIG_DATA_FMT.pack(T_ms, P_ms, H_ms, C_ms, gas, r, g, b) built
\* from the value last written for each field for that MAC (defaults for
\* fields never written); a set_trigger on a sensor of one MAC never
\* changes the config of another MAC or another field.
C33_ThingyConfig ==
    [][/\ \A m \in TMACS :
            (EnableThingy52(m) /\ thwritten'.data # <<>>) =>
                  (thwritten'.mac = m /\ thwritten'.data = Expected(m))
       /\ \A m \in TMACS, entry \in ENTRIES :
            (\E operand \in OPERANDS : SetTriggerThingy52(m, entry, operand)) =>
                  /\ \A q \in TMACS \ {m} : CONFIG_CACHE'[q] = CONFIG_CACHE[q]
                  /\ \A f \in DOMAIN Thingy52Config \ {entry} :
                        CONFIG_CACHE'[m][f] = CONFIG_CACHE[m][f]]_vars

\* A blob has been written for an address after set_trigger calls for two
\* of its entries and for the other address: it carries 0 ms and 2500 ms
\* for the two entries and the default 1000 ms for another.
C33_Witness ==
    /\ thwritten.mac = "t1" /\ Len(thwritten.data) = 12
    /\ thlast["t1"]["temperature"] = 5 /\ thlast["t1"]["pressure"] = 25000
    /\ thlast["t1"]["humidity"] = Unset
    /\ thlast["t2"]["temperature"] = 25000
    /\ SubSeq(thwritten.data, 1, 6) = <<0, 0, 196, 9, 232, 3>>

\* ---------------------------------------------------------- descriptors

devOnly ==
    UNCHANGED <<coreVars, serialVars, notifVars, pathVars, thlast, thwritten, thbudget, tagVars,
                dispVars>>

\* Service descriptors: a standard characteristic and two sensors of a
\* Thingy-like device, with the address type and the converter their
\* registration gives a device.
SERVICES ==
    { [cls |-> "ServiceCharacteristic", config_entry |-> "none",
       address_type |-> "PUBLIC", convert |-> "identity"],
      [cls |-> "Thingy52Service", config_entry |-> "temperature",
       address_type |-> "RANDOM", convert |-> "temperature"],
      [cls |-> "Thingy52Service", config_entry |-> "color",
       address_type |-> "RANDOM", convert |-> "convert_light"] }

CONDITIONS == {"FIXED_TIME", "ON_CHANGE"}
TRIGGER_OPERANDS == {5, 25000}

\* create_device: the Device descriptor of a service and an address.
create_device(srv, m) ==
    [variant |-> "Device", service |-> srv, mac |-> m,
     address_type |-> srv.address_type, convert |-> srv.convert, trigger |-> NoTrigger]

\* The set_trigger of device.py: a new DeviceTrigger with the fields of the
\* device and Trigger(condition, operand).
DeviceTrigger(device, condition, operand) ==
    [variant |-> "DeviceTrigger", service |-> device.service, mac |-> device.mac,
     address_type |-> device.address_type, convert |-> device.convert,
     trigger |-> Trigger(condition, operand)]

\* The descriptors the constructors give: a Device, and for a Thingy-like
\* device the DeviceTrigger with the trigger of its registration,
\* Trigger(FIXED_TIME, 1).
Constructed ==
    {create_device(srv, m) : srv \in SERVICES, m \in TMACS}
    \cup {DeviceTrigger(create_device(srv, m), "FIXED_TIME", SECOND) :
             srv \in {x \in SERVICES : x.cls = "Thingy52Service"}, m \in TMACS}

\* The implementation single dispatch selects for the descriptor.
IsThingyTrigger(device) ==
    device.variant = "DeviceTrigger" /\ device.service.cls = "Thingy52Service"

\* set_trigger the same for every descriptor: the implementation of
\* device.py alone.
SetTriggerGeneric(device, condition, operand) ==
    /\ devOnly
    /\ tcall' = [device |-> device, condition |-> condition, operand |-> operand]
    /\ tout' = DeviceTrigger(device, condition, operand)
    /\ UNCHANGED CONFIG_CACHE

\* set_trigger(device, condition, operand=operand).  For a
\* DeviceTrigger[Thingy52Service] the implementation of thingy52.py runs:
\* the operand is put in the cached configuration of the address and the
\* device itself is returned.  For every other descriptor the
\* implementation of device.py runs.
SetTrigger(device, condition, operand) ==
    /\ devOnly
    /\ tcall' = [device |-> device, condition |-> condition, operand |-> operand]
    /\ IF IsThingyTrigger(device)
       THEN /\ CONFIG_CACHE' =
                  [CONFIG_CACHE EXCEPT ![device.mac][device.service.config_entry] = operand]
            /\ tout' = device
       ELSE /\ tout' = DeviceTrigger(device, condition, operand)
            /\ UNCHANGED CONFIG_CACHE

\* set_interval(device, interval).
SetInterval(device, interval) == SetTrigger(device, "FIXED_TIME", interval)

DevNext ==
    \/ \E device \in Constructed \cup ({tout} \ {NoDevice}),
          condition \in CONDITIONS, operand \in TRIGGER_OPERANDS :
          SetTrigger(device, condition, operand)
    \/ \E device \in Constructed \cup ({tout} \ {NoDevice}), interval \in TRIGGER_OPERANDS :
          SetInterval(device, interval)

DevInit == CoreInit /\ impl = "connect" /\ SerialIdle /\ NotifIdle /\ ExtraIdle

DevSpec == DevInit /\ [][DevNext]_vars

\* What the claim says of a call: the result is a DeviceTrigger with
\* Trigger(condition, operand) and the other fields of the device.
Carries(call, result) ==
    /\ result.variant = "DeviceTrigger"
    /\ result.trigger = Trigger(call.condition, call.operand)
    /\ result.service = call.device.service
    /\ result.mac = call.device.mac
    /\ result.address_type = call.device.address_type
    /\ result.convert = call.device.convert

\* C34: for every device variant, set_trigger(device, condition, operand)
\* (and set_interval(device, s), which equals
\* set_trigger(device, FIXED_TIME, s)) returns a DeviceTrigger descriptor
\* that carries Trigger(condition, operand) and the same service, mac,
\* address_type and convert as the input; the input descriptor is not
\* modified and no shared mutable state is changed by the call.
C34_SetTriggerDescriptor ==
    /\ [](tout # NoDevice => Carries(tcall, tout))
    /\ [][CONFIG_CACHE' = CONFIG_CACHE]_vars

\* The part of C34 that holds: for every descriptor but a
\* DeviceTrigger[Thingy52Service] the result carries the trigger and the
\* fields of the input and the cached configurations are left alone; and
\* set_interval is set_trigger with FIXED_TIME.
C34_OtherVariants ==
    /\ []((tout # NoDevice /\ ~IsThingyTrigger(tcall.device)) => Carries(tcall, tout))
    /\ [][/\ ~IsThingyTrigger(tcall'.device) => CONFIG_CACHE' = CONFIG_CACHE
          /\ \A device \in Constructed \cup {tout}, interval \in TRIGGER_OPERANDS :
                (device # NoDevice /\ SetInterval(device, interval)) =>
                    SetTrigger(device, "FIXED_TIME", interval)]_vars

\* set_trigger on the trigger device of a Thingy-like sensor has returned
\* the device it was given, with the trigger of the registration and not
\* the one asked for, and has changed the cached configuration.
C34_Witness ==
    /\ IsThingyTrigger(tcall.device) /\ tout = tcall.device
    /\ tcall.condition = "ON_CHANGE" /\ tcall.operand = 25000
    /\ tout.trigger = Trigger("FIXED_TIME", SECOND)
    /\ CONFIG_CACHE[tout.mac][tout.service.config_entry] = 25000

\* ----------------------------------------------------------- sensor tag

tagOnly ==
    UNCHANGED <<coreVars, serialVars, notifVars, pathVars, thingyVars, devVars, dispVars>>

\* Intervals and operands in milliseconds: the 1 s of SensorTagService,
\* and operands below, at and above 2.56 s.
TAG_INTERVALS == {1000, 2560}
TAG_OPERANDS == {5, 10, 20, 1000, 2550, 2559, 2560, 5000}

\* The bytes that switch a sensor on.
config_on == <<1>>

\* int(t * 100) of a time of t milliseconds.
Centis(t) == t \div 10

\* bytes([value]): one byte, ValueError out of range(0, 256).
bytes1(value) ==
    IF value \in 0..255 THEN [err |-> "none", data |-> <<value>>]
    ELSE [err |-> "ValueError", data |-> <<>>]

\* The encoding of an interval in the enable functions: with assertions
\* enabled (dbg) a value of 256 or more is AssertionError, without them
\* bytes() raises ValueError.
EncodeInterval(t, dbg) ==
    IF Centis(t) >= 256 /\ dbg
    THEN [err |-> "AssertionError", data |-> <<>>]
    ELSE bytes1(Centis(t))

\* The sensor tag reads the byte as a number of 10 ms.
DecodeInterval(data) == data[1]

\* enable(device) is called for a sensor tag device.
TagEnable(variant, interval, operand, dbg) ==
    /\ tagOnly
    /\ stpc \in {"idle", "done"}
    /\ stdev' = [variant |-> variant, interval |-> interval,
                 operand |-> IF variant = "Device" THEN 0 ELSE operand, dbg |-> dbg]
    /\ stpc' = "conf" /\ stwrites' = <<>> /\ stres' = "none"

\* _enable_sensor_tag after ensure_characteristic_paths: config_on is
\* written to the configuration characteristic.
TagWriteConf ==
    /\ tagOnly
    /\ stpc = "conf"
    /\ stwrites' = Append(stwrites, <<"uuid_conf", config_on>>)
    /\ stpc' = "interval"
    /\ UNCHANGED <<stdev, stres>>

\* _enable_sensor_tag: the interval of the service is encoded and written
\* to the trigger characteristic; for a Device the call ends here.
TagWriteInterval ==
    /\ tagOnly
    /\ stpc = "interval"
    /\ LET enc == EncodeInterval(stdev.interval, stdev.dbg)
       IN  IF enc.err # "none"
           THEN stpc' = "done" /\ stres' = enc.err /\ UNCHANGED stwrites
           ELSE /\ stwrites' = Append(stwrites, <<"uuid_trigger", enc.data>>)
                /\ IF stdev.variant = "Device"
                   THEN stpc' = "done" /\ stres' = "ok"
                   ELSE stpc' = "operand" /\ UNCHANGED stres
    /\ UNCHANGED stdev

\* _enable_sensor_tag_tr after _enable_sensor_tag: the operand of the
\* trigger is encoded and written to the trigger characteristic.
TagWriteOperand ==
    /\ tagOnly
    /\ stpc = "operand"
    /\ LET enc == EncodeInterval(stdev.operand, stdev.dbg)
       IN  IF enc.err # "none"
           THEN stpc' = "done" /\ stres' = enc.err /\ UNCHANGED stwrites
           ELSE /\ stwrites' = Append(stwrites, <<"uuid_trigger", enc.data>>)
                /\ stpc' = "notify" /\ UNCHANGED stres
    /\ UNCHANGED stdev

\* _enable_sensor_tag_tr: _enable_dev_trigger, and the call returns.
TagNotify ==
    /\ tagOnly
    /\ stpc = "notify"
    /\ stpc' = "done" /\ stres' = "ok"
    /\ UNCHANGED <<stdev, stwrites>>

TagNext ==
    \/ \E variant \in {"Device", "DeviceTrigger"}, interval \in TAG_INTERVALS,
          operand \in TAG_OPERANDS, dbg \in BOOLEAN : TagEnable(variant, interval, operand, dbg)
    \/ TagWriteConf
    \/ TagWriteInterval
    \/ TagWriteOperand
    \/ TagNotify

TagInit == CoreInit /\ impl = "connect" /\ SerialIdle /\ NotifIdle /\ ExtraIdle

TagSpec == TagInit /\ [][TagNext]_vars

\* The writes to the trigger characteristic the call has made.
TriggerWrites == SelectSeq(stwrites, LAMBDA w : w[1] = "uuid_trigger")

\* The enable of a trigger device has ended.
TriggerEnableEnded == stpc = "done" /\ stdev.variant = "DeviceTrigger"

\* C35: for a SensorTag-like device the FIXED_TIME trigger with operand t
\* seconds is encoded as the single byte int(t*100), which is preserved by
\* decoding for every 0 < t < 2.56; an operand with int(t*100) >= 256 (for
\* example t = 2.56) is rejected with ConfigurationError and nothing is
\* written to the trigger characteristic.
C35_TriggerByte ==
    /\ []((TriggerEnableEnded /\ stres = "ok") =>
            /\ Centis(stdev.operand) < 256
            /\ Len(TriggerWrites[Len(TriggerWrites)][2]) = 1
            /\ DecodeInterval(TriggerWrites[Len(TriggerWrites)][2]) = Centis(stdev.operand))
    /\ []((TriggerEnableEnded /\ Centis(stdev.operand) >= 256) =>
            (stres = "ConfigurationError" /\ TriggerWrites = <<>>))

\* The part of C35 that holds: an operand below 2.56 s is written as the
\* one byte int(t*100); an operand of 2.56 s or more ends the call with an
\* error and its byte is never written; a call that succeeds has written
\* the operand last.
C35_ByteOrError ==
    /\ []((TriggerEnableEnded /\ stres = "ok") =>
            /\ Centis(stdev.operand) < 256
            /\ Len(TriggerWrites[Len(TriggerWrites)][2]) = 1
            /\ DecodeInterval(TriggerWrites[Len(TriggerWrites)][2]) = Centis(stdev.operand))
    /\ []((TriggerEnableEnded /\ Centis(stdev.operand) >= 256) =>
            /\ stres \in {"AssertionError", "ValueError"}
            /\ \A i \in 1..Len(TriggerWrites) :
                  TriggerWrites[i][2] = <<Centis(stdev.interval)>>)

\* The enable of a trigger device with an operand of 2.56 s has ended with
\* AssertionError after the interval of the service was written to the
\* trigger characteristic.
C35_Witness ==
    /\ TriggerEnableEnded /\ stdev.operand = 2560 /\ stdev.interval = 1000
    /\ stres = "AssertionError"
    /\ TriggerWrites = << <<"uuid_trigger", <<100>>>> >>

\* ---------------------------------------------------------- read_all

\* What read_all does with the end of the read() it awaits: a value is
\* yielded, a CancelledError is logged and the loop goes on, every other
\* exception leaves the generator and ends the stream at its consumer.
read_all(res) ==
    CASE res = Ok -> "yield"
      [] res.kind = "CancelledError" -> "absorb"
      [] OTHER -> "raise"

\* The read() call of the reader ends in this step.
ReadReturned(r) == rpc[r] # "idle" /\ rpc'[r] = "idle"

\* C36: read_all(device) keeps yielding values as long as the session is
\* active: a read interrupted because the device disconnected is absorbed,
\* is not raised to the consumer of the stream, and reading resumes after
\* the device is reconnected; the stream ends once the session is no
\* longer active.
C36_ReadAllAbsorbs ==
    [][\A r \in READERS :
         (ReadReturned(r) /\ is_active') => read_all(rres'[r]) # "raise"]_vars

\* The part of C36 that holds: while the session is active a read ends
\* with a value, with a cancellation, which read_all absorbs, or with one
\* of the two errors of a disconnection, ConnectionError after
\* disconnect_devices and KeyError for a subscription that is gone; and a
\* read called on a session that is not active is a cancellation, after
\* which the loop of read_all ends.
C36_StreamWhileActive ==
    [][\A r \in READERS :
         /\ (ReadReturned(r) /\ is_active') =>
               \/ read_all(rres'[r]) # "raise"
               \/ rres'[r].kind \in {"ConnectionError", "KeyError"}
         /\ (rpc[r] = "idle" /\ rres'[r] # rres[r] /\ ~is_active) =>
               (rpc'[r] = "idle" /\ read_all(rres'[r]) = "absorb")]_vars

\* With the session active, the read() that read_all awaited has ended
\* with the KeyError of a subscription removed by the disable of its
\* device: the error leaves read_all.
C36_Witness ==
    \E r \in READERS :
        /\ is_active /\ rpc[r] = "idle"
        /\ rres[r].kind = "KeyError" /\ read_all(rres[r]) = "raise"

\* ------------------------------------------------------------- dispatch

dispOnly ==
    UNCHANGED <<coreVars, serialVars, notifVars, pathVars, thingyVars, devVars, tagVars>>

\* Most product classes and most registered implementations followed.
MaxClasses == 9
MaxImpls == 3

\* A class is named by its product and by the number of the classes made
\* for that product when it was created.
ClassesOf(types, v, c) == {x \in DOMAIN types : x[1] = v /\ x[2] = c}

RECURSIVE NewClass(_, _, _, _)
\* A class is made for (v, c): its base is the product class of the
\* variant and the nearest ancestor of c, made in the same way when asked
\* for with lookup, or object for the root of the service classes.
NewClass(st, v, c, lookup) ==
    LET p == ParentOf[c]
        ps == IF p = "object"
              THEN [reg |-> st.reg, types |-> st.types, cls |-> Object]
              ELSE IF lookup /\ st.reg[<<v, p>>] # 0
              THEN [reg |-> st.reg, types |-> st.types, cls |-> <<v, p, st.reg[<<v, p>>]>>]
              ELSE NewClass(st, v, p, lookup)
        id == <<v, c, Cardinality(ClassesOf(ps.types, v, c)) + 1>>
    IN  [reg |-> [ps.reg EXCEPT ![<<v, c>>] = id[3]],
         types |-> ps.types @@ (id :> ps.cls),
         cls |-> id]

\* __class_getitem__ that makes a class on every request.
class_getitem_fresh(st, v, c) == NewClass(st, v, c, FALSE)

\* DeviceBase.__class_getitem__ for the variant v and the service class c:
\* the class in _PROXY_REGISTRY if there is one, else a new class, stored
\* in the registry.
class_getitem(st, v, c) ==
    IF st.reg[<<v, c>>] # 0
    THEN [reg |-> st.reg, types |-> st.types, cls |-> <<v, c, st.reg[<<v, c>>]>>]
    ELSE NewClass(st, v, c, TRUE)

Now == [reg |-> PROXY_REGISTRY, types |-> ptypes]

RECURSIVE find_impl(_, _, _)
\* functools.singledispatch: the implementation of the first class of the
\* method resolution order that has one, the default for object.
find_impl(types, reg, cls) ==
    IF cls = Object THEN Default
    ELSE IF cls \in reg THEN <<cls[1], cls[2]>>
    ELSE find_impl(types, reg, types[cls])

\* The registry and the classes after a request.
Answer(st) ==
    /\ Cardinality(DOMAIN st.types) <= MaxClasses
    /\ PROXY_REGISTRY' = st.reg
    /\ ptypes' = st.types

\* Device[c, T] or DeviceTrigger[c, T] is evaluated.
ClassRequest(v, c) ==
    LET st == class_getitem(Now, v, c)
    IN  /\ dispOnly
        /\ Answer(st)
        /\ dres' = [op |-> "class", key |-> <<v, c>>, cls |-> st.cls, impl |-> Default]
        /\ UNCHANGED registered

\* An implementation of a generic function is registered for the class of
\* its annotation.
Register(v, c) ==
    LET st == class_getitem(Now, v, c)
    IN  /\ dispOnly
        /\ Cardinality(registered \cup {st.cls}) <= MaxImpls
        /\ Answer(st)
        /\ registered' = registered \cup {st.cls}
        /\ dres' = [op |-> "register", key |-> <<v, c>>, cls |-> st.cls, impl |-> <<v, c>>]

\* A descriptor of the variant v is constructed for a service of the class
\* c (DeviceBase.__new__) and the generic function is applied to it.
Dispatch(v, c) ==
    LET st == class_getitem(Now, v, c)
    IN  /\ dispOnly
        /\ Answer(st)
        /\ dres' = [op |-> "dispatch", key |-> <<v, c>>, cls |-> st.cls,
                    impl |-> find_impl(st.types, registered, st.cls)]
        /\ UNCHANGED registered

DispNext ==
    \/ \E v \in VARIANTS, c \in SCLASSES : ClassRequest(v, c)
    \/ \E v \in VARIANTS, c \in SCLASSES : Register(v, c)
    \/ \E v \in VARIANTS, c \in SCLASSES : Dispatch(v, c)

DispInit == CoreInit /\ impl = "connect" /\ SerialIdle /\ NotifIdle /\ ExtraIdle

DispSpec == DispInit /\ [][DispNext]_vars

\* The pairs an implementation has been registered for.
RegisteredPairs == {<<x[1], x[2]>> : x \in registered}

RECURSIVE Nearest(_, _)
\* The pair of the variant and of the nearest class, from c up, that an
\* implementation is registered for; the default if there is none.
Nearest(v, c) ==
    IF c = "object" THEN Default
    ELSE IF <<v, c>> \in RegisteredPairs THEN <<v, c>>
    ELSE Nearest(v, ParentOf[c])

\* C37: a generic operation applied to a device descriptor selects the
\* implementation registered for the descriptor's exact (device variant,
\* service class) pair, otherwise the one registered for the nearest
\* ancestor service class within the same device variant; an
\* implementation registered for a plain Device pair is never selected for
\* a DeviceTrigger descriptor, and the product class of a (variant,
\* service class) pair is the same class on every request.
C37_Dispatch ==
    /\ [](dres.op = "dispatch" =>
            /\ dres.impl = Nearest(dres.key[1], dres.key[2])
            /\ dres.impl[1] \in {dres.key[1], "default"})
    /\ [](dres.op # "none" => dres.cls = <<dres.key[1], dres.key[2], 1>>)
    /\ [][\A k \in PKEYS : PROXY_REGISTRY[k] # 0 => PROXY_REGISTRY'[k] = PROXY_REGISTRY[k]]_vars

\* A DeviceTrigger descriptor of a Thingy52Service has been given the
\* implementation of DeviceTrigger[ServiceCharacteristic], with
\* implementations registered for Device[Thingy52Service] and for
\* DeviceTrigger[Service] too.
C37_Witness ==
    /\ dres.op = "dispatch" /\ dres.key = <<"DeviceTrigger", "Thingy52Service">>
    /\ dres.impl = <<"DeviceTrigger", "ServiceCharacteristic">>
    /\ RegisteredPairs = {<<"Device", "Thingy52Service">>, <<"DeviceTrigger", "Service">>,
                          <<"DeviceTrigger", "ServiceCharacteristic">>}

\* The connection task of m ends in this step with an exception, or by
\* cancellation.
TaskFails(m) == ~ConnEnded(pc[m]) /\ pc'[m] = "failed"
TaskEndsCancelled(m) == ~ConnEnded(pc[m]) /\ pc'[m] = "cancelled"

\* A device task that is not done.
Running(r) == r \in AllDeviceTasks /\ task[r].st \in {"new", "wait", "woken"}

READ_OUTCOMES == {"value", "ConnectionError", "CancelledError"}

\* C39: every read call made while a session exists ends with a decoded
\* value, with ConnectionError or with a cancellation error; under any
\* interleaving with Session.stop(), device disable and reconnection no
\* other error reaches the caller.
C39_ReadOutcomes ==
    [][\A r \in READERS :
        ReadReturned(r) => rres'[r].kind \in READ_OUTCOMES]_vars

\* What the code does: besides the three outcomes a read ends with the
\* lookup error of a subscription removed by disable, or with the error of
\* the connected() scope that returned without yielding.
C39_FiveOutcomes ==
    [][\A r \in READERS :
        ReadReturned(r) =>
            rres'[r].kind \in READ_OUTCOMES \cup {"KeyError", "RuntimeError"}]_vars

\* A read that got through the gate of a session stopped meanwhile has
\* ended with the error of the scope, and its caller holds no task.
C39_Witness ==
    \E r \in READERS :
        /\ rpc[r] = "idle" /\ rres[r].kind = "RuntimeError"
        /\ rres[r].kind \notin READ_OUTCOMES
        /\ \A d \in DEVICES : r \notin device_task[d]

\* The read call ends in this step while it awaits a fragment, cancelled
\* or failed: it was suspended in Bus._gatt_get and returns no bytes.
ReadAborted == rd.pc = "frag" /\ rd'.pc = "idle" /\ got' = got

\* The bytes the remote has sent that are in no place the next read takes
\* them from.
Kept == {got[i] : i \in 1..Len(got)} \cup {buffer[i] : i \in 1..Len(buffer)}
            \cup UNION {{uart_q[q][i] : i \in 1..Len(uart_q[q])} : q \in 1..Len(uart_q)}
LostBytes == (1..sent) \ Kept

\* C40: if a serial read is cancelled or fails while it waits for a
\* fragment, the serial state is left as if only the fragments actually
\* received had been processed: the bytes of the fragments received during
\* that call are retained for the next read, and rx_credits has been
\* decreased only by the number of fragments actually received.
C40_AbortedRead ==
    [][ReadAborted => /\ buffer' = rd.data
                      /\ rx_credits' = rx_credits]_vars

\* What the code does: the bytes collected by the call are in its local
\* data and go with it, the buffer stays as the call found it or as enable
\* reset it, and the finally block of _rx_credits_mgr takes one credit for
\* the fragment that was awaited.
C40_AsCoded ==
    [][ReadAborted => /\ UNCHANGED buffer
                      /\ rx_credits' = rx_credits - 1]_vars

\* After one enable a read that had taken a fragment was cancelled awaiting
\* the next one, and no read has returned since: the bytes of the fragment
\* are gone and the count is one below granted minus received.
C40_Witness ==
    /\ budget.enable = MaxEnables - 1 /\ budget.cancel < MaxCancels
    /\ rd.pc = "idle" /\ sconn /\ epc = "idle"
    /\ StreamPrefix /\ buffer = <<>>
    /\ LostBytes # {}
    /\ rx_credits = granted - frags - 1

=============================================================================
